---- MODULE Spec2Model ----
(***************************************************************************)
(* Worktree status reconciliation of wtm (commands/list.ts), together with *)
(* the status cache (utils/cache.ts), the review client (utils/github.ts)  *)
(* and the repository queries (utils/git.ts) it is built on.               *)
(*                                                                         *)
(* One invocation of getWorktreeStatuses is a sequence of steps, one per   *)
(* external command the code awaits.  The remote reviews are fixed for a   *)
(* behaviour; every external command may fail when it is issued.           *)
(***************************************************************************)
EXTENDS Integers, Sequences, FiniteSets, TLC

\* ------------------------------------------------------------------ bounds
\* Number of consecutive invocations of the list command in one behaviour.
MaxRuns == 2

\* Number of commits of the repositories the merged-review rules are run on.
MaxCommits == 4

\* ------------------------------------------------------- the environment
\* Review numbers known to the remote (0 stands for "no number").
PRNumbers == {1, 2}

\* Branch names.  DefaultBranchName is what getDefaultBranch answers.
DefaultBranchName == "main"
FeatureNames == {"fx", "fy"}
BranchNames == {DefaultBranchName} \cup FeatureNames

\* WorktreeInfo.branch of a bare or detached worktree (null in the source).
NoBranch == "-"

\* The local commit graph: commit -> parents.  "m" is a merge commit.
Commits == {"c0", "c1", "m", "c2"}
Parents == [c \in Commits |->
              CASE c = "c0" -> {}
                [] c = "c1" -> {"c0"}
                [] c = "m"  -> {"c1", "c0"}
                [] c = "c2" -> {"m"}]

\* refs/heads/<branch> of the local repository.
BranchTip == [b \in BranchNames |->
                CASE b = "main" -> "c0"
                  [] b = "fx"   -> "c2"
                  [] b = "fy"   -> "m"]

\* A head commit the remote may record that the local repository lacks.
RemoteOnlySha == "r9"
HeadOids == {"c1", "m", "c2", RemoteOnlySha}

\* null of the source (a missing review, a failed rev-parse).
NullSha == "null"
NullPR == [number |-> 0, state |-> "NONE", headRefOid |-> "", headRefName |-> ""]

\* The review records the remote can hold under one number.
PRRecords(n) ==
  {NullPR}
    \cup [number : {n}, state : {"OPEN", "CLOSED"}, headRefOid : {"c1"},
          headRefName : FeatureNames]
    \cup [number : {n}, state : {"MERGED"}, headRefOid : HeadOids,
          headRefName : FeatureNames]

Remotes == {r \in [PRNumbers -> UNION {PRRecords(n) : n \in PRNumbers}] :
              \A n \in PRNumbers : r[n] \in PRRecords(n)}

\* Contents of .wtm-cache.json: prNumbers as branch -> number, 0 for a branch
\* without an entry; ok = FALSE is a file that does not parse.
\* The default branch carries an entry too, left by an earlier version or by hand.
CacheMaps == {c \in [BranchNames -> {0} \cup PRNumbers] : c[DefaultBranchName] = 1}
EmptyCache == [b \in BranchNames |-> 0]
CacheFiles == [ok : {TRUE}, prNumbers : CacheMaps]
                \cup {[ok |-> FALSE, prNumbers |-> EmptyCache]}

\* WorktreeInfo, reduced to the fields getWorktreeStatuses reads.
WT(b) == [branch |-> b, bare |-> FALSE, detached |-> FALSE]
BareWT == [branch |-> NoBranch, bare |-> TRUE, detached |-> FALSE]
DetachedWT == [branch |-> NoBranch, bare |-> FALSE, detached |-> TRUE]

\* The outputs of listWorktrees the model runs the command on.
WorktreeLists ==
  { <<WT("main"), WT("fx"), WT("fy")>>,
    <<BareWT, WT("main"), DetachedWT, WT("fx")>>,
    <<WT("main")>>,
    <<BareWT, DetachedWT>> }

\* WorktreeInfo as the sweep command reads it: the path too.
SweepWT(p, b) == [path |-> p, branch |-> b, bare |-> FALSE, detached |-> FALSE]
SweepBare == [path |-> "/p/repo.git", branch |-> NoBranch, bare |-> TRUE, detached |-> FALSE]
SweepDetached == [path |-> "/p/det", branch |-> NoBranch, bare |-> FALSE, detached |-> TRUE]

\* The outputs of listWorktrees the model runs the sweep command on.
SweepLists ==
  { <<SweepWT("/p/main", "main"), SweepWT("/p/fx", "fx"), SweepWT("/p/fy", "fy")>>,
    <<SweepBare, SweepWT("/p/master", "master"), SweepDetached,
      SweepWT("/p/fy", "fy"), SweepWT("/p/fx", "fx")>>,
    <<>> }

\* Branches a swept worktree can be on.
SweepBranches == BranchNames \cup {"master"}

\* Where the sweep command can be run from: a worktree, a directory inside a
\* worktree, the directory that holds the worktrees.
WorkingDirs == {"/p/main", "/p/fx", "/p/fy", "/p/fx/src", "/p"}

\* Ref and branch names as sequences of their /-separated components.
OriginPrefix == <<"refs", "remotes", "origin">>
RemoteBranches == { <<"main">>, <<"master">>, <<"develop">>, <<"feature", "x">>,
                    <<"refs", "remotes", "origin", "x">> }

\* refs/remotes/origin: what HEAD points at (<<>>: HEAD is not set) and which
\* of the probed branches it holds.
Origins == [head : {<<>>} \cup {OriginPrefix \o b : b \in RemoteBranches},
            branches : SUBSET {<<"main">>, <<"master">>}]
NoOrigin == [head |-> <<>>, branches |-> {}]

\* ----------------------------------------------------------------- state
VARIABLES
  remote,         \* review number -> review record held by the hosting service
  cacheFile,      \* the persisted status cache
  run,            \* number of invocations started
  pc,             \* position of the running invocation
  worktrees,      \* listWorktrees() of this invocation
  featureBranches,\* branches minus the default branch, in worktree order
  cachedOrder,    \* keys of the Map cachedNumbers, in insertion order
  cachedNumbers,  \* the Map cachedNumbers: branch -> number (0: no key)
  loadedNumbers,  \* cachedNumbers as getCachedPRNumbers returned it
  newPRNumbers,   \* the Map newPRNumbers: branch -> number (0: no key)
  prStatuses,     \* the Map prStatuses: number -> review record (NullPR: no key)
  cacheUpdates,   \* the Map cacheUpdates: branch -> number (0: no key)
  result,         \* the Map result: branch -> [status, prNumber]
  idx,            \* loop index of the running for-loop
  locals,         \* per branch: the loop body's locals when its iteration ended
  github,         \* what isGhCliAvailable() and isGitHubRepo() answered
  batchOk,        \* "-" before the batch fetch, then whether it succeeded
  writes,         \* the saveCache calls of this invocation: mappings and outcome
  log,            \* external calls of this invocation, in order
  dirty,          \* branches whose worktree holds uncommitted changes at listing
  statusFailed,   \* branches whose git status query failed at listing
  items,          \* the list items: branch -> [status, prNumber] as reported
  faults,         \* the kinds of external command that can fail in this behaviour
  prev,           \* what the previous getWorktreeStatuses call left, when repeated
  buf,            \* the cache updateCachedPRNumbers holds between its load and its save
  me,             \* which of two concurrent invocations is the running one
  other,          \* the locals of the invocation that is not running
  fileSize,       \* bytes a truncation or an overlapped write left in the cache file
  lastWrite,      \* the last write to the cache file: by whom, and what
  sweepPc,        \* position of the sweep command
  options,        \* SweepOptions: dryRun and force
  currentDir,     \* process.cwd() of the sweep command
  sweepWorktrees, \* listWorktrees() of the sweep command
  sweepIdx,       \* index of the worktree the sweep loop is at
  seen,           \* per branch: what the sweep iteration found out about it
  queried,        \* paths of the worktrees getMergedPR was called for
  removed,        \* paths of the worktrees git worktree remove took away
  deleted,        \* branches git branch -D deleted
  sweptCount,     \* the counter sweptCount
  origin,         \* refs/remotes/origin of the repository, and its git's health
  dbPc,           \* position of getDefaultBranch
  probed,         \* what the git commands of getDefaultBranch answered
  dbResult,       \* what getDefaultBranch returned
  parents,        \* a repository's commits 1..Len(parents), each with its parents
  gPc,            \* position of the classification run on that repository
  probe,          \* the branch tip and the reviews that classification is given
  verdict         \* its status, and the queries it made

vars == <<remote, cacheFile, run, pc, worktrees, featureBranches, cachedOrder,
          cachedNumbers, loadedNumbers, newPRNumbers, prStatuses, cacheUpdates,
          result, idx, locals, github, batchOk, writes, log, dirty, statusFailed, items,
          faults, prev, buf, me, other, fileSize, lastWrite, sweepPc, options,
          currentDir, sweepWorktrees, sweepIdx, seen, queried, removed, deleted,
          sweptCount, origin, dbPc, probed, dbResult, parents, gPc, probe,
          verdict>>

\* What only concurrent invocations use.
raceVars == <<buf, me, other, fileSize, lastWrite>>

\* What only the sweep command uses, and what only getDefaultBranch uses.
sweepVars == <<sweepPc, options, currentDir, sweepWorktrees, sweepIdx, seen, queried,
               removed, deleted, sweptCount>>
defaultVars == <<origin, dbPc, probed, dbResult>>
graphVars == <<parents, gPc, probe, verdict>>
cmdVars == <<sweepVars, defaultVars, graphVars>>

\* What no step of getWorktreeStatuses touches.
engineFrame == <<dirty, statusFailed, items, faults, prev, raceVars, cmdVars>>

NoResult == [status |-> "none", prNumber |-> 0]
EmptyResult == [b \in BranchNames |-> NoResult]
EmptyStatuses == [n \in PRNumbers |-> NullPR]

\* "-" marks a query the iteration did not issue.
NoLocals == [prNumber0 |-> 0, batchStatus |-> NullPR, stale |-> FALSE,
             prNumber |-> 0, prStatus |-> NullPR, localSha |-> "-",
             headExists |-> "-", nonMerge |-> "-", relooked |-> FALSE,
             freshPR |-> NullPR]
EmptyLocals == [b \in BranchNames |-> NoLocals]
EmptyNumbers == [b \in BranchNames |-> 0]
NoGitHubAnswer == [ghAvailable |-> FALSE, isGitHub |-> FALSE]

\* Kinds of external command: git, the gh CLI, writing the cache file.
CommandKinds == {"git", "gh", "cache"}

\* The outcomes a command of a kind can have: success, and failure if allowed.
Outcomes(kind) == IF kind \in faults THEN BOOLEAN ELSE {TRUE}

\* prev before any call was repeated.
NoPrev == [run |-> 0, result |-> EmptyResult,
           cacheFile |-> [ok |-> FALSE, prNumbers |-> EmptyNumbers],
           written |-> EmptyNumbers, github |-> NoGitHubAnswer]

\* The locals of an invocation that has not started.
IdleLocals(p) ==
  [pc |-> "idle", run |-> 0, worktrees |-> <<>>, featureBranches |-> <<>>,
   cachedOrder |-> <<>>, cachedNumbers |-> EmptyNumbers,
   loadedNumbers |-> EmptyNumbers, newPRNumbers |-> EmptyNumbers,
   prStatuses |-> EmptyStatuses, cacheUpdates |-> EmptyNumbers,
   result |-> EmptyResult, idx |-> 1, locals |-> EmptyLocals,
   github |-> NoGitHubAnswer, batchOk |-> "-", writes |-> <<>>, log |-> <<>>,
   buf |-> EmptyNumbers, me |-> p]

NoWrite == [by |-> 0, prNumbers |-> EmptyNumbers]

\* SweepOptions before the command line is read.
NoOptions == [dryRun |-> FALSE, force |-> FALSE]

\* What a sweep iteration found out about a branch; "-" marks what it did
\* not ask for.
NoSighting == [mergedPR |-> NullPR, localHeadSha |-> "-", isMerged |-> "-",
               kept |-> "-"]
NothingSeen == [b \in SweepBranches |-> NoSighting]

\* Commits of a grown repository are numbered from 1; 0 is a commit it does
\* not hold, -1 the null of a failed rev-parse.
MissingCommit == 0
NullCommit == -1

\* No review: what a lookup that finds nothing, or fails, returns.
NoFresh == [kind |-> "none", head |-> MissingCommit]
NoProbe == [tip |-> MissingCommit, prHead |-> MissingCommit, freshPR |-> NoFresh]
NoVerdict == [status |-> "none", newer |-> FALSE, asked |-> {}]

\* "-" marks a command getDefaultBranch did not run; failures counts the
\* commands that could not be run properly.
NoProbes == [head |-> "-", main |-> "-", master |-> "-", failures |-> 0]

YesNo(v) == IF v THEN "yes" ELSE "no"

\* An entry of the call log.
Call(op, br, ids) == [op |-> op, br |-> br, ids |-> ids]

\* ------------------------------------------------------ sequence helpers
Range(s) == {s[i] : i \in 1..Len(s)}

RECURSIVE Dedup(_)
\* Array.from(new Set(xs)): first occurrences, in order.
Dedup(xs) ==
  IF xs = <<>> THEN <<>>
  ELSE LET front == Dedup(SubSeq(xs, 1, Len(xs) - 1))
           last == xs[Len(xs)]
       IN IF last \in Range(front) THEN front ELSE Append(front, last)

\* ------------------------------------------------- utils/git.ts (queries)
RECURSIVE Reach(_)
\* Commits reachable from c by parent links, c included.
Reach(c) == {c} \cup UNION {Reach(p) : p \in Parents[c]}

\* git rev-parse refs/heads/<branch>; null when the command fails.
getBranchHeadSha(branch, ok) == IF ok THEN BranchTip[branch] ELSE NullSha

\* Variant of commitExists that takes every commit for present.
commitExists_AssumeYes(sha, ok) == TRUE

\* git cat-file -t <sha> answers "commit".
commitExists(sha, ok) == ok /\ sha \in Commits

\* git log --no-merges <afterSha>..refs/heads/<branch> prints something.
hasNonMergeCommitsAfter(branch, afterSha, ok) ==
  /\ ok
  /\ afterSha \in Commits
  /\ \E c \in Reach(BranchTip[branch]) \ Reach(afterSha) :
        Cardinality(Parents[c]) <= 1

\* git rev-list --count refs/heads/<target>..refs/heads/<branch> is positive.
hasCommitsNotInBranch(branch, targetBranch, ok) ==
  /\ ok
  /\ Reach(BranchTip[branch]) \ Reach(BranchTip[targetBranch]) # {}

\* git status --porcelain in the worktree prints something; a failed command
\* counts as no changes.
hasUncommittedChanges(branch, dirtyTrees, ok) == ok /\ branch \in dirtyTrees

\* Variant of isAncestor with its arguments exchanged.
isAncestor_Reversed(ancestor, descendant, ok) ==
  ok /\ ancestor \in Commits /\ descendant \in Commits /\ descendant \in Reach(ancestor)

\* git merge-base --is-ancestor <ancestor> <descendant> exits with 0; it does
\* not when a commit is unknown to the repository or the command fails.
isAncestor(ancestor, descendant, ok) ==
  ok /\ ancestor \in Commits /\ descendant \in Commits /\ ancestor \in Reach(descendant)

\* git worktree remove [--force] <path>: refuses a worktree with uncommitted
\* changes unless forced.
removeWorktree(force, hasChanges, ok) == ok /\ (force \/ ~hasChanges)

\* Ref names as git prints them, by component.
RECURSIVE replaceFirst(_, _)
\* output.replace(pattern, ""): the first occurrence of the pattern is cut
\* out, wherever it is; an output without the pattern is returned as it is.
replaceFirst(output, pattern) ==
  IF Len(output) < Len(pattern) THEN output
  ELSE IF SubSeq(output, 1, Len(pattern)) = pattern
       THEN SubSeq(output, Len(pattern) + 1, Len(output))
       ELSE <<output[1]>> \o replaceFirst(Tail(output), pattern)

\* git symbolic-ref refs/remotes/origin/HEAD: succeeds when HEAD is set.
symbolicRef(o, ok) ==
  IF ok /\ o.head # <<>> THEN [success |-> TRUE, output |-> o.head]
  ELSE [success |-> FALSE, output |-> <<>>]

\* git show-ref --verify --quiet refs/remotes/origin/<branch> exits with 0.
remoteBranchExists(branch, o, ok) == ok /\ branch \in o.branches

\* Variant of getDefaultBranch that returns the ref as git printed it.
getDefaultBranch_FullRef(head, mainExists, masterExists) ==
  IF head.success THEN head.output
  ELSE IF mainExists THEN <<"main">>
  ELSE IF masterExists THEN <<"master">>
  ELSE <<"main">>

\* getDefaultBranch, given what its commands answer.
getDefaultBranch(head, mainExists, masterExists) ==
  IF head.success THEN replaceFirst(head.output, OriginPrefix)
  ELSE IF mainExists THEN <<"main">>
  ELSE IF masterExists THEN <<"master">>
  ELSE <<"main">>

\* ----------------------------------------------------- utils/github.ts
\* gh pr list --head <branch> --state merged --limit 1: the most recent merged
\* review of the branch, null when there is none or the command fails.
getMergedPR(branch, ok) ==
  LET mine == {n \in PRNumbers : /\ remote[n] # NullPR
                                 /\ remote[n].state = "MERGED"
                                 /\ remote[n].headRefName = branch}
  IN IF ok /\ mine # {}
     THEN remote[CHOOSE n \in mine : \A k \in mine : k <= n]
     ELSE NullPR

\* gh pr list --head <branch> --state all --limit 1: the most recent review
\* of the branch, null when there is none or the command fails.
findPRForBranch(branch, ok) ==
  LET mine == {n \in PRNumbers : remote[n] # NullPR /\ remote[n].headRefName = branch}
  IN IF ok /\ mine # {}
     THEN remote[CHOOSE n \in mine : \A k \in mine : k <= n]
     ELSE NullPR

\* Variant of batchGetPRStatuses that keeps the first review of a failed query.
batchGetPRStatuses_PartialOnFailure(prNumbers, ok) ==
  IF Len(prNumbers) = 0
  THEN EmptyStatuses
  ELSE [n \in PRNumbers |->
          IF n \in Range(prNumbers) /\ (ok \/ n = prNumbers[1]) THEN remote[n] ELSE NullPR]

\* One GraphQL query for all numbers; an empty Map when it fails.
batchGetPRStatuses(prNumbers, ok) ==
  IF Len(prNumbers) = 0 \/ ~ok
  THEN EmptyStatuses
  ELSE [n \in PRNumbers |-> IF n \in Range(prNumbers) THEN remote[n] ELSE NullPR]

\* ------------------------------------------------------ utils/cache.ts
\* Variant of loadCache that reads every file as an empty cache.
loadCache_AlwaysEmpty(file) == EmptyCache

\* loadCache: a missing or unparsable file is an empty cache.
loadCache(file) ==
  IF file.ok THEN file.prNumbers ELSE EmptyCache

\* Variant of saveCache whose failed write leaves an unreadable file.
saveCache_FailedWriteTruncates(file, prNumbers, writeOk) ==
  IF writeOk THEN [ok |-> TRUE, prNumbers |-> prNumbers]
  ELSE [ok |-> FALSE, prNumbers |-> EmptyCache]

\* saveCache: overwrites the file; a failed write leaves it as it was.
saveCache(file, prNumbers, writeOk) ==
  IF writeOk THEN [ok |-> TRUE, prNumbers |-> prNumbers] ELSE file

\* getCachedPRNumbers: the cache restricted to the given branches.
getCachedPRNumbers(branches, file) ==
  [b \in BranchNames |-> IF b \in Range(branches) THEN loadCache(file)[b] ELSE 0]

\* Variant of updateCachedPRNumbers that saves the cache as loaded.
updateCachedPRNumbers_NoOverlay(file, mappings, writeOk) ==
  saveCache(file, loadCache(file), writeOk)

\* Variant of overlay that fills gaps only: a branch the cache already maps
\* keeps its entry.
overlay_KeepCached(cache, mappings) ==
  [b \in BranchNames |-> IF cache[b] # 0 THEN cache[b] ELSE mappings[b]]

\* cache.prNumbers[branch] = prNumber for every mapping.
overlay(cache, mappings) ==
  [b \in BranchNames |-> IF mappings[b] # 0 THEN mappings[b] ELSE cache[b]]

\* Variant of updateCachedPRNumbers that saves the mappings alone.
updateCachedPRNumbers_OnlyMappings(file, mappings, writeOk) ==
  saveCache(file, mappings, writeOk)

\* updateCachedPRNumbers: load, overlay the mappings, save.
updateCachedPRNumbers(file, mappings, writeOk) ==
  saveCache(file, overlay(loadCache(file), mappings), writeOk)

\* Variant of needsWrite that writes empty mappings too.
needsWrite_Always(mappings) == TRUE

\* if (map.size > 0): the guard of both calls of updateCachedPRNumbers.
needsWrite(mappings) == mappings # EmptyNumbers

\* Length of a branch name, and of JSON.stringify(cache, null, 2): the frame
\* plus one line per entry (indentation, quoted name, colon, one digit, comma).
nameLength(b) == IF b = "main" THEN 4 ELSE 2
sizeOf(prNumbers) ==
  LET entries == {b \in BranchNames : prNumbers[b] # 0}
      lines == [b \in BranchNames |-> IF b \in entries THEN nameLength(b) + 11 ELSE 0]
  IN 22 + lines["main"] + lines["fx"] + lines["fy"]

\* ------------------------------------------------- commands/list.ts
\* getNoPRStatus: "Changes" when the branch has commits of its own.
getNoPRStatus(branch, defaultBranch, ok) ==
  IF hasCommitsNotInBranch(branch, defaultBranch, ok) THEN "Changes" ELSE "Empty"

\* branches: the branches of the worktrees that have one.
branchesOf(wts) ==
  LET withBranch == SelectSeq(wts, LAMBDA wt : wt.branch # NoBranch)
  IN [i \in 1..Len(withBranch) |-> withBranch[i].branch]

\* Variant of featureBranchesOf that forgets to drop the default branch.
featureBranchesOf_KeepDefault(branches, defaultBranch) == branches

\* featureBranches: branches without the default branch.
featureBranchesOf(branches, defaultBranch) ==
  SelectSeq(branches, LAMBDA b : b # defaultBranch)

\* Variant of uncachedBranchesOf that looks every feature branch up.
uncachedBranchesOf_All(branches, cached) == branches

\* uncachedBranches: feature branches the loaded cache has no number for.
uncachedBranchesOf(branches, cached) ==
  SelectSeq(branches, LAMBDA b : cached[b] = 0)

\* Variant of allPRNumbers without the Set: one number per key.
allPRNumbers_NoSet(order, numbers) ==
  [i \in 1..Len(order) |-> numbers[order[i]]]

\* allPRNumbers: the distinct values of cachedNumbers, in key order.
allPRNumbers(order, numbers) ==
  Dedup([i \in 1..Len(order) |-> numbers[order[i]]])

\* prStatus built from a fresh single-branch lookup (the || defaults included).
prStatusOfFresh(freshPR, branch) ==
  [number |-> freshPR.number,
   state |-> freshPR.state,
   headRefOid |-> freshPR.headRefOid,
   headRefName |-> IF freshPR.headRefName = "" THEN branch ELSE freshPR.headRefName]

\* Variant of isStale that trusts every fetched status.
isStale_Never(prStatus, branch) == FALSE

\* Variant of isStale that distrusts every fetched status.
isStale_Always(prStatus, branch) == prStatus # NullPR

\* The staleness test: a fetched status that names another head branch.
isStale(prStatus, branch) ==
  prStatus # NullPR /\ prStatus.headRefName # branch

\* Variant of isNewerMerged that accepts a different review in any state.
isNewerMerged_AnyState(freshPR, prNumber) ==
  freshPR # NullPR /\ freshPR.number # prNumber

\* The test that the re-run lookup found a different, merged review.
isNewerMerged(freshPR, prNumber) ==
  freshPR # NullPR /\ freshPR.number # prNumber /\ freshPR.state = "MERGED"

\* Variant of noGitHubAccess that tests the review CLI alone.
noGitHubAccess_CliOnly(ghAvailable, isGitHub) == ~ghAvailable

\* if (!isGitHub || !ghAvailable): the availability gate is closed.
noGitHubAccess(ghAvailable, isGitHub) == ~isGitHub \/ ~ghAvailable

\* Variant of overridable that leaves merged branches alone.
overridable_NotMerged(status) == status \in {"Empty", "Changes"}

\* Variant of overridable that also overrides an open review's status.
overridable_AlsoOpen(status) == status \in {"Merged", "Empty", "Changes", "Open"}

\* The statuses the uncommitted-changes check of list() applies to.
overridable(status) == status \in {"Merged", "Empty", "Changes"}

\* The status of one list item: the computed status, or "Uncommitted Changes"
\* when it is overridable and the worktree reports changes.
itemStatus(status, branch, dirtyTrees, ok) ==
  IF overridable(status) /\ hasUncommittedChanges(branch, dirtyTrees, ok)
  THEN "Uncommitted Changes"
  ELSE status

\* statusInfo of a worktree's item: none for a worktree without a branch.
itemOf(wt, listItems) == IF wt.branch = NoBranch THEN NoResult ELSE listItems[wt.branch]

\* formatStatus, colours left out.
formatStatus(status) == IF status = "none" THEN "(unknown)" ELSE status

\* Variant of statusShown that prints no marker for a bare worktree.
statusShown_BareUnmarked(wt, item, json) ==
  IF json THEN (IF item.status = "none" THEN "null" ELSE item.status)
  ELSE IF wt.detached THEN "(detached)"
  ELSE formatStatus(item.status)

\* What list() prints as the status of a worktree: the item's status field
\* with --json, otherwise the status column of the table.
statusShown(wt, item, json) ==
  IF json THEN (IF item.status = "none" THEN "null" ELSE item.status)
  ELSE IF wt.bare THEN "(bare)"
  ELSE IF wt.detached THEN "(detached)"
  ELSE formatStatus(item.status)

\* --------------------------------------------------------------- actions
\* No command has run yet.
Quiescent ==
  /\ run = 0
  /\ pc = "idle"
  /\ worktrees = <<>>
  /\ featureBranches = <<>>
  /\ cachedOrder = <<>>
  /\ cachedNumbers = EmptyNumbers
  /\ loadedNumbers = EmptyNumbers
  /\ newPRNumbers = EmptyNumbers
  /\ prStatuses = EmptyStatuses
  /\ cacheUpdates = EmptyNumbers
  /\ result = EmptyResult
  /\ idx = 1
  /\ locals = EmptyLocals
  /\ github = NoGitHubAnswer
  /\ batchOk = "-"
  /\ writes = <<>>
  /\ log = <<>>
  /\ dirty = {}
  /\ statusFailed = {}
  /\ items = EmptyResult
  /\ prev = NoPrev
  /\ buf = EmptyNumbers
  /\ me = 1
  /\ other = IdleLocals(2)
  /\ fileSize = 0
  /\ lastWrite = NoWrite
  /\ sweepPc = "idle"
  /\ options = NoOptions
  /\ currentDir = ""
  /\ sweepWorktrees = <<>>
  /\ sweepIdx = 1
  /\ seen = NothingSeen
  /\ queried = {}
  /\ removed = {}
  /\ deleted = {}
  /\ sweptCount = 0
  /\ dbPc = "idle"
  /\ probed = NoProbes
  /\ dbResult = <<>>
  /\ parents = <<>>
  /\ gPc = "idle"
  /\ probe = NoProbe
  /\ verdict = NoVerdict

\* Before the first invocation of the list command.
Fresh ==
  /\ remote \in Remotes
  /\ cacheFile \in CacheFiles
  /\ origin = NoOrigin
  /\ Quiescent

\* Every external command may fail.
Init == Fresh /\ faults = CommandKinds

\* No external command fails.
InitRepeat == Fresh /\ faults = {}

\* Only writing the cache file may fail.
InitLossy == Fresh /\ faults = {"cache"}

\* Entry of getWorktreeStatuses(worktrees): partition the worktrees, mark the
\* default branch Main, return early when no feature branch is left.
Start(wts) ==
  /\ run < MaxRuns
  /\ LET branches == branchesOf(wts)
         defaultBranch == DefaultBranchName
         features == featureBranchesOf(branches, defaultBranch)
     IN /\ worktrees' = wts
        /\ featureBranches' = features
        /\ result' = [b \in BranchNames |->
                        IF b = defaultBranch /\ b \in Range(branches)
                        THEN [status |-> "Main", prNumber |-> 0]
                        ELSE NoResult]
        /\ pc' = IF Len(branches) = 0 \/ Len(features) = 0 THEN "done" ELSE "gate"
  /\ run' = run + 1
  /\ cachedOrder' = <<>>
  /\ cachedNumbers' = EmptyNumbers
  /\ loadedNumbers' = EmptyNumbers
  /\ newPRNumbers' = EmptyNumbers
  /\ prStatuses' = EmptyStatuses
  /\ cacheUpdates' = EmptyNumbers
  /\ idx' = 1
  /\ locals' = EmptyLocals
  /\ github' = NoGitHubAnswer
  /\ batchOk' = "-"
  /\ writes' = <<>>
  /\ log' = <<>>
  /\ dirty' = {}
  /\ statusFailed' = {}
  /\ items' = EmptyResult
  /\ UNCHANGED <<remote, cacheFile, faults, raceVars, cmdVars>>

\* The list command is run: list() calls listWorktrees and getWorktreeStatuses.
Invoke ==
  /\ pc \in {"idle", "listed"}
  /\ \E wts \in WorktreeLists : Start(wts)
  /\ UNCHANGED prev

\* isGhCliAvailable() and isGitHubRepo(cwd): the availability gate.
Gate ==
  /\ pc = "gate"
  /\ \E ghAvailable \in BOOLEAN, isGitHub \in BOOLEAN :
       /\ github' = [ghAvailable |-> ghAvailable, isGitHub |-> isGitHub]
       /\ pc' = IF noGitHubAccess(ghAvailable, isGitHub) THEN "nogithub" ELSE "load"
  /\ UNCHANGED <<remote, cacheFile, run, worktrees, featureBranches, cachedOrder,
                 cachedNumbers, loadedNumbers, newPRNumbers, prStatuses,
                 cacheUpdates, result, idx, locals, batchOk, writes, log>>
  /\ UNCHANGED engineFrame

\* No GitHub access: every feature branch gets its no-review status.
NoGitHub ==
  /\ pc = "nogithub"
  /\ \E gitOk \in {g \in SUBSET Range(featureBranches) :
                      "git" \in faults \/ g = Range(featureBranches)} :
       /\ result' = [b \in BranchNames |->
                       IF b \in Range(featureBranches)
                       THEN [status |-> getNoPRStatus(b, DefaultBranchName, b \in gitOk),
                             prNumber |-> 0]
                       ELSE result[b]]
       /\ log' = log \o [i \in 1..Len(featureBranches) |->
                           Call("hasCommitsNotInBranch", featureBranches[i], <<>>)]
  /\ pc' = "done"
  /\ UNCHANGED <<remote, cacheFile, run, worktrees, featureBranches, cachedOrder,
                 cachedNumbers, loadedNumbers, newPRNumbers, prStatuses,
                 cacheUpdates, idx, locals, github, batchOk, writes>>
  /\ UNCHANGED engineFrame

\* const cachedNumbers = getCachedPRNumbers(featureBranches)
LoadCached ==
  /\ pc = "load"
  /\ LET cached == getCachedPRNumbers(featureBranches, cacheFile)
     IN /\ cachedNumbers' = cached
        /\ loadedNumbers' = cached
        /\ cachedOrder' = SelectSeq(featureBranches, LAMBDA b : cached[b] # 0)
  /\ log' = Append(log, Call("loadCache", "", <<>>))
  /\ idx' = 1
  /\ pc' = "lookup"
  /\ UNCHANGED <<remote, cacheFile, run, worktrees, featureBranches, newPRNumbers,
                 prStatuses, cacheUpdates, result, locals, github, batchOk, writes>>
  /\ UNCHANGED engineFrame

\* Variant of nextUncached that looks a branch up again when nothing was found.
nextUncached_RetryOnMiss(i, pr, total) == IF pr = NullPR THEN i ELSE i + 1

\* Variant of nextUncached that leaves the loop when a lookup found nothing.
nextUncached_BreakOnMiss(i, pr, total) == IF pr = NullPR THEN total + 1 ELSE i + 1

\* for (const branch of uncachedBranches): the loop goes on to the next branch
\* whatever the lookup returned.
nextUncached(i, pr, total) == i + 1

\* One iteration of the loop over uncachedBranches.
LookupUncached ==
  /\ pc = "lookup"
  /\ LET uncached == uncachedBranchesOf(featureBranches, loadedNumbers)
     IN /\ idx <= Len(uncached)
        /\ \E ok \in Outcomes("gh") :
             LET branch == uncached[idx]
                 pr == findPRForBranch(branch, ok)
             IN /\ IF pr # NullPR
                   THEN /\ newPRNumbers' = [newPRNumbers EXCEPT ![branch] = pr.number]
                        /\ cachedNumbers' = [cachedNumbers EXCEPT ![branch] = pr.number]
                        /\ cachedOrder' = Append(cachedOrder, branch)
                   ELSE UNCHANGED <<newPRNumbers, cachedNumbers, cachedOrder>>
                /\ idx' = nextUncached(idx, pr, Len(uncached))
        /\ log' = Append(log, Call("findPRForBranch", uncached[idx], <<>>))
  /\ UNCHANGED <<remote, cacheFile, run, pc, worktrees, featureBranches,
                 loadedNumbers, prStatuses, cacheUpdates, result, locals, github,
                 batchOk, writes>>
  /\ UNCHANGED engineFrame

\* if (newPRNumbers.size > 0) updateCachedPRNumbers(newPRNumbers)
SaveNew ==
  /\ pc = "lookup"
  /\ idx > Len(uncachedBranchesOf(featureBranches, loadedNumbers))
  /\ IF needsWrite(newPRNumbers)
     THEN /\ \E writeOk \in Outcomes("cache") :
               /\ cacheFile' = updateCachedPRNumbers(cacheFile, newPRNumbers, writeOk)
               /\ writes' = Append(writes, [mappings |-> newPRNumbers, ok |-> writeOk])
          /\ log' = log \o <<Call("loadCache", "", <<>>), Call("saveCache", "", <<>>)>>
     ELSE UNCHANGED <<cacheFile, writes, log>>
  /\ pc' = "batch"
  /\ UNCHANGED <<remote, run, worktrees, featureBranches, cachedOrder, cachedNumbers,
                 loadedNumbers, newPRNumbers, prStatuses, cacheUpdates, result, idx,
                 locals, github, batchOk>>
  /\ UNCHANGED engineFrame

\* const prStatuses = batchGetPRStatuses(allPRNumbers)
BatchFetch ==
  /\ pc = "batch"
  /\ LET ids == allPRNumbers(cachedOrder, cachedNumbers)
     IN /\ \E ok \in Outcomes("gh") :
             /\ prStatuses' = batchGetPRStatuses(ids, ok)
             /\ batchOk' = YesNo(ok)
        /\ log' = Append(log, Call("batchGetPRStatuses", "", ids))
  /\ idx' = 1
  /\ pc' = "classify"
  /\ UNCHANGED <<remote, cacheFile, run, worktrees, featureBranches, cachedOrder,
                 cachedNumbers, loadedNumbers, newPRNumbers, cacheUpdates, result,
                 locals, github, writes>>
  /\ UNCHANGED engineFrame

\* Variant of unmergedStatus that reports every unmerged review as open.
unmergedStatus_AlwaysOpen(state) == "Open"

\* The status of a review that is not merged.
unmergedStatus(state) == IF state = "OPEN" THEN "Open" ELSE "Closed"

\* Variant of Finish that reports the number the cache held for the branch.
Finish_CachedNumber(branch, status, prNumber, update, loc, calls) ==
  /\ result' = [result EXCEPT ![branch] = [status |-> status, prNumber |-> loc.prNumber0]]
  /\ cacheUpdates' = IF update # 0 THEN [cacheUpdates EXCEPT ![branch] = update]
                     ELSE cacheUpdates
  /\ locals' = [locals EXCEPT ![branch] = loc]
  /\ log' = log \o calls
  /\ idx' = idx + 1

\* result.set(branch, ...) and, for a corrected entry, cacheUpdates.set(...):
\* the end of one iteration of the classification loop.
Finish(branch, status, prNumber, update, loc, calls) ==
  /\ result' = [result EXCEPT ![branch] = [status |-> status, prNumber |-> prNumber]]
  /\ cacheUpdates' = IF update # 0 THEN [cacheUpdates EXCEPT ![branch] = update]
                     ELSE cacheUpdates
  /\ locals' = [locals EXCEPT ![branch] = loc]
  /\ log' = log \o calls
  /\ idx' = idx + 1

\* prStatus.state === "MERGED", the re-run lookup found a newer merged review.
NewerMerged(branch, freshPR, loc, calls) ==
  LET n == freshPR.number
  IN IF loc.localSha = freshPR.headRefOid
     THEN Finish(branch, "Merged", n, n, loc, calls)
     ELSE IF freshPR.headRefOid = ""
     THEN Finish(branch, "Merged", n, n, loc, calls)
     ELSE \E okEx \in Outcomes("git") :
       LET calls2 == Append(calls, Call("commitExists", branch, <<>>))
       IN IF ~commitExists(freshPR.headRefOid, okEx)
          THEN Finish(branch, "Merged", n, n, loc, calls2)
          ELSE \E okNm \in Outcomes("git") :
            LET calls3 == Append(calls2, Call("hasNonMergeCommitsAfter", branch, <<>>))
            IN IF ~hasNonMergeCommitsAfter(branch, freshPR.headRefOid, okNm)
               THEN Finish(branch, "Merged", n, n, loc, calls3)
               ELSE Finish(branch, "Changes since Merge", n, n, loc, calls3)

\* prStatus.state === "MERGED": compare the local head with the review's head.
MergedCase(branch, prNumber, prStatus, update, loc0, calls0) ==
  \E okSha \in Outcomes("git") :
    LET localSha == getBranchHeadSha(branch, okSha)
        loc1 == [loc0 EXCEPT !.localSha = localSha]
        calls1 == Append(calls0, Call("getBranchHeadSha", branch, <<>>))
    IN IF localSha = prStatus.headRefOid
       THEN Finish(branch, "Merged", prNumber, update, loc1, calls1)
       ELSE \E okEx \in Outcomes("git") :
         LET exists == commitExists(prStatus.headRefOid, okEx)
             loc2 == [loc1 EXCEPT !.headExists = YesNo(exists)]
             calls2 == Append(calls1, Call("commitExists", branch, <<>>))
         IN IF ~exists
            THEN Finish(branch, "Merged", prNumber, update, loc2, calls2)
            ELSE \E okNm \in Outcomes("git") :
              LET nonMerge == hasNonMergeCommitsAfter(branch, prStatus.headRefOid, okNm)
                  loc3 == [loc2 EXCEPT !.nonMerge = YesNo(nonMerge)]
                  calls3 == Append(calls2, Call("hasNonMergeCommitsAfter", branch, <<>>))
              IN IF ~nonMerge
                 THEN Finish(branch, "Merged", prNumber, update, loc3, calls3)
                 ELSE \E okLk \in Outcomes("gh") :
                   LET freshPR == findPRForBranch(branch, okLk)
                       loc4 == [loc3 EXCEPT !.relooked = TRUE, !.freshPR = freshPR]
                       calls4 == Append(calls3, Call("findPRForBranch", branch, <<>>))
                   IN IF isNewerMerged(freshPR, prNumber)
                      THEN NewerMerged(branch, freshPR, loc4, calls4)
                      ELSE Finish(branch, "Changes since Merge", prNumber, update,
                                  loc4, calls4)

\* Variant of Decide that keeps the number of a review it could not fetch.
Decide_KeepsNumber(branch, prNumber, prStatus, update, loc0, calls0) ==
  LET loc == [loc0 EXCEPT !.prNumber = prNumber, !.prStatus = prStatus]
  IN IF prNumber = 0 \/ prStatus = NullPR
     THEN \E ok \in Outcomes("git") :
            Finish(branch, getNoPRStatus(branch, DefaultBranchName, ok), prNumber, update,
                   loc, Append(calls0, Call("hasCommitsNotInBranch", branch, <<>>)))
     ELSE IF prStatus.state \in {"OPEN", "CLOSED"}
     THEN Finish(branch, unmergedStatus(prStatus.state), prNumber, update, loc, calls0)
     ELSE MergedCase(branch, prNumber, prStatus, update, loc, calls0)

\* Variant of Decide whose second arm takes every review that is not open.
Decide_ElseClosed(branch, prNumber, prStatus, update, loc0, calls0) ==
  LET loc == [loc0 EXCEPT !.prNumber = prNumber, !.prStatus = prStatus]
  IN IF prNumber = 0 \/ prStatus = NullPR
     THEN \E ok \in Outcomes("git") :
            Finish(branch, getNoPRStatus(branch, DefaultBranchName, ok), 0, update, loc,
                   Append(calls0, Call("hasCommitsNotInBranch", branch, <<>>)))
     ELSE Finish(branch, unmergedStatus(prStatus.state), prNumber, update, loc, calls0)

\* The precedence rules applied to the resolved prNumber and prStatus.
Decide(branch, prNumber, prStatus, update, loc0, calls0) ==
  LET loc == [loc0 EXCEPT !.prNumber = prNumber, !.prStatus = prStatus]
  IN IF prNumber = 0 \/ prStatus = NullPR
     THEN \E ok \in Outcomes("git") :
            Finish(branch, getNoPRStatus(branch, DefaultBranchName, ok), 0, update, loc,
                   Append(calls0, Call("hasCommitsNotInBranch", branch, <<>>)))
     ELSE IF prStatus.state \in {"OPEN", "CLOSED"}
     THEN Finish(branch, unmergedStatus(prStatus.state), prNumber, update, loc, calls0)
     ELSE MergedCase(branch, prNumber, prStatus, update, loc, calls0)

\* One iteration of the loop "for (const branch of featureBranches)".
ClassifyBranch ==
  /\ pc = "classify"
  /\ idx <= Len(featureBranches)
  /\ LET branch == featureBranches[idx]
         prNumber0 == cachedNumbers[branch]
         prStatus0 == IF prNumber0 # 0 THEN prStatuses[prNumber0] ELSE NullPR
         loc0 == [NoLocals EXCEPT !.prNumber0 = prNumber0, !.batchStatus = prStatus0]
     IN IF isStale(prStatus0, branch)
        THEN \E ok \in Outcomes("gh") :
               LET freshPR == findPRForBranch(branch, ok)
                   loc1 == [loc0 EXCEPT !.stale = TRUE]
                   calls == <<Call("findPRForBranch", branch, <<>>)>>
               IN IF freshPR # NullPR
                  THEN Decide(branch, freshPR.number, prStatusOfFresh(freshPR, branch),
                              freshPR.number, loc1, calls)
                  ELSE Decide(branch, 0, NullPR, 0, loc1, calls)
        ELSE Decide(branch, prNumber0, prStatus0, 0, loc0, <<>>)
  /\ UNCHANGED <<remote, cacheFile, run, pc, worktrees, featureBranches, cachedOrder,
                 cachedNumbers, loadedNumbers, newPRNumbers, prStatuses, github,
                 batchOk, writes>>
  /\ UNCHANGED engineFrame

\* if (cacheUpdates.size > 0) updateCachedPRNumbers(cacheUpdates); return result
SaveUpdates ==
  /\ pc = "classify"
  /\ idx > Len(featureBranches)
  /\ IF needsWrite(cacheUpdates)
     THEN /\ \E writeOk \in Outcomes("cache") :
               /\ cacheFile' = updateCachedPRNumbers(cacheFile, cacheUpdates, writeOk)
               /\ writes' = Append(writes, [mappings |-> cacheUpdates, ok |-> writeOk])
          /\ log' = log \o <<Call("loadCache", "", <<>>), Call("saveCache", "", <<>>)>>
     ELSE UNCHANGED <<cacheFile, writes, log>>
  /\ pc' = "done"
  /\ UNCHANGED <<remote, run, worktrees, featureBranches, cachedOrder, cachedNumbers,
                 loadedNumbers, newPRNumbers, prStatuses, cacheUpdates, result, idx,
                 locals, github, batchOk>>
  /\ UNCHANGED engineFrame

\* const statuses = getWorktreeStatuses(...): the call returns its result; its
\* locals and the record of its calls end with it.
Return ==
  /\ pc = "done"
  /\ pc' = "returned"
  /\ cachedOrder' = <<>>
  /\ cachedNumbers' = EmptyNumbers
  /\ loadedNumbers' = EmptyNumbers
  /\ newPRNumbers' = EmptyNumbers
  /\ prStatuses' = EmptyStatuses
  /\ cacheUpdates' = EmptyNumbers
  /\ idx' = 1
  /\ locals' = EmptyLocals
  /\ github' = NoGitHubAnswer
  /\ batchOk' = "-"
  /\ writes' = <<>>
  /\ log' = <<>>
  /\ UNCHANGED <<remote, cacheFile, run, worktrees, featureBranches, result>>
  /\ UNCHANGED engineFrame

\* list() builds its items from the returned statuses: the computed status of
\* every branch, overridden by the uncommitted-changes check; the review
\* number is passed through.
BuildItems ==
  /\ pc = "returned"
  /\ \E dirtyTrees \in SUBSET Range(branchesOf(worktrees)) :
       \E failed \in {f \in SUBSET {b \in dirtyTrees : overridable(result[b].status)} :
                        "git" \in faults \/ f = {}} :
         /\ dirty' = dirtyTrees
         /\ statusFailed' = failed
         /\ items' = [b \in BranchNames |->
                        IF result[b] = NoResult
                        THEN NoResult
                        ELSE [status |-> itemStatus(result[b].status, b, dirtyTrees,
                                                    b \notin failed),
                              prNumber |-> result[b].prNumber]]
  /\ pc' = "listed"
  /\ UNCHANGED <<remote, cacheFile, run, worktrees, featureBranches, cachedOrder,
                 cachedNumbers, loadedNumbers, newPRNumbers, prStatuses, cacheUpdates,
                 result, idx, locals, github, batchOk, writes, log, faults, prev,
                 raceVars, cmdVars>>

Next ==
  \/ Invoke
  \/ Gate
  \/ NoGitHub
  \/ LoadCached
  \/ LookupUncached
  \/ SaveNew
  \/ BatchFetch
  \/ ClassifyBranch
  \/ SaveUpdates
  \/ Return
  \/ BuildItems

Spec == Init /\ [][Next]_vars

\* The mappings the cache writes of this call stored: later writes overlay
\* earlier ones, failed writes store nothing.
RECURSIVE Written(_)
Written(ws) ==
  IF ws = <<>> THEN EmptyNumbers
  ELSE LET before == Written(SubSeq(ws, 1, Len(ws) - 1))
           w == ws[Len(ws)]
       IN IF w.ok
          THEN [b \in BranchNames |-> IF w.mappings[b] # 0 THEN w.mappings[b] ELSE before[b]]
          ELSE before

\* getWorktreeStatuses is called again on the same worktrees, right after it
\* returned.
Again ==
  /\ pc = "done"
  /\ Start(worktrees)
  /\ prev' = [run |-> run, result |-> result, cacheFile |-> cacheFile,
              written |-> Written(writes), github |-> github]

NextRepeat ==
  \/ Invoke
  \/ Again
  \/ Gate
  \/ NoGitHub
  \/ LoadCached
  \/ LookupUncached
  \/ SaveNew
  \/ BatchFetch
  \/ ClassifyBranch
  \/ SaveUpdates

\* getWorktreeStatuses run repeatedly on unchanged worktrees, repository and
\* remote, with every external command succeeding.
SpecRepeat == InitRepeat /\ [][NextRepeat]_vars

\* The same, except that a write of the cache file may fail.
SpecLossy == InitLossy /\ [][NextRepeat]_vars

\* ------------------------------------------------------ one invocation
\* The list command is run once.
InvokeOnce == run = 0 /\ Invoke

\* A step of getWorktreeStatuses.
EngineStep ==
  \/ Gate
  \/ NoGitHub
  \/ LoadCached
  \/ LookupUncached
  \/ SaveNew
  \/ BatchFetch
  \/ ClassifyBranch
  \/ SaveUpdates

NextOnce ==
  \/ InvokeOnce
  \/ EngineStep

\* One invocation in which every external command returns, with success or
\* with failure: the program takes its next step whenever it has one.
SpecOnce == Init /\ [][NextOnce]_vars /\ WF_vars(EngineStep)

\* ------------------------------------------------ concurrent invocations
\* Two invocations of the list command run at once on the same cache file.
\* One of them is the running one, whose locals are the variables above; the
\* locals of the other are kept in other.  updateCachedPRNumbers is taken in
\* its steps: loadCache, then writeFileSync opening (and so emptying) the
\* file, then writeFileSync writing at offset 0.

\* const cache = loadCache(); cache.prNumbers[branch] = prNumber ...
UpdateRead(mappings, opening, skipping) ==
  /\ IF needsWrite(mappings)
     THEN /\ buf' = overlay(loadCache(cacheFile), mappings)
          /\ log' = Append(log, Call("loadCache", "", <<>>))
          /\ pc' = opening
     ELSE /\ pc' = skipping
          /\ UNCHANGED <<buf, log>>
  /\ UNCHANGED <<remote, cacheFile, run, worktrees, featureBranches, cachedOrder,
                 cachedNumbers, loadedNumbers, newPRNumbers, prStatuses, cacheUpdates,
                 result, idx, locals, github, batchOk, writes, dirty, statusFailed,
                 items, faults, prev, me, other, fileSize, lastWrite, cmdVars>>

\* if (newPRNumbers.size > 0) updateCachedPRNumbers(newPRNumbers): its load.
SaveNewRead ==
  /\ pc = "lookup"
  /\ idx > Len(uncachedBranchesOf(featureBranches, loadedNumbers))
  /\ UpdateRead(newPRNumbers, "open1", "batch")

\* if (cacheUpdates.size > 0) updateCachedPRNumbers(cacheUpdates): its load.
SaveUpdatesRead ==
  /\ pc = "classify"
  /\ idx > Len(featureBranches)
  /\ UpdateRead(cacheUpdates, "open2", "done")

\* writeFileSync opens the file for writing, which empties it.
SaveOpen ==
  /\ pc \in {"open1", "open2"}
  /\ cacheFile' = [ok |-> FALSE, prNumbers |-> EmptyCache]
  /\ fileSize' = 0
  /\ pc' = IF pc = "open1" THEN "write1" ELSE "write2"
  /\ UNCHANGED <<remote, run, worktrees, featureBranches, cachedOrder, cachedNumbers,
                 loadedNumbers, newPRNumbers, prStatuses, cacheUpdates, result, idx,
                 locals, github, batchOk, writes, log, dirty, statusFailed, items,
                 faults, prev, buf, me, other, lastWrite, cmdVars>>

\* The file after size bytes are written at offset 0 of what it holds: the
\* written cache, or an unparsable mix when more bytes were there already.
writtenOver(file, size, prNumbers) ==
  LET held == IF file.ok THEN sizeOf(file.prNumbers) ELSE size
  IN IF held > sizeOf(prNumbers)
     THEN [file |-> [ok |-> FALSE, prNumbers |-> EmptyCache], size |-> held]
     ELSE [file |-> [ok |-> TRUE, prNumbers |-> prNumbers], size |-> 0]

\* writeFileSync writes the serialized cache from offset 0 and closes the file.
SaveWrite ==
  /\ pc \in {"write1", "write2"}
  /\ cacheFile' = writtenOver(cacheFile, fileSize, buf).file
  /\ fileSize' = writtenOver(cacheFile, fileSize, buf).size
  /\ lastWrite' = [by |-> me, prNumbers |-> buf]
  /\ writes' = Append(writes, [mappings |-> IF pc = "write1" THEN newPRNumbers
                                            ELSE cacheUpdates,
                               ok |-> TRUE])
  /\ log' = Append(log, Call("saveCache", "", <<>>))
  /\ pc' = IF pc = "write1" THEN "batch" ELSE "done"
  /\ UNCHANGED <<remote, run, worktrees, featureBranches, cachedOrder, cachedNumbers,
                 loadedNumbers, newPRNumbers, prStatuses, cacheUpdates, result, idx,
                 locals, github, batchOk, dirty, statusFailed, items, faults, prev,
                 buf, me, other, cmdVars>>

\* The locals of the running invocation.
Locals ==
  [pc |-> pc, run |-> run, worktrees |-> worktrees,
   featureBranches |-> featureBranches, cachedOrder |-> cachedOrder,
   cachedNumbers |-> cachedNumbers, loadedNumbers |-> loadedNumbers,
   newPRNumbers |-> newPRNumbers, prStatuses |-> prStatuses,
   cacheUpdates |-> cacheUpdates, result |-> result, idx |-> idx,
   locals |-> locals, github |-> github, batchOk |-> batchOk, writes |-> writes,
   log |-> log, buf |-> buf, me |-> me]

\* The running invocation is about to read or write the cache file, or is over.
AtFileAccess ==
  \/ pc \in {"load", "open1", "write1", "open2", "write2", "done"}
  \/ pc = "lookup" /\ idx > Len(uncachedBranchesOf(featureBranches, loadedNumbers))
  \/ pc = "classify" /\ idx > Len(featureBranches)

\* The scheduler runs the other invocation.  Invocations affect each other
\* through the cache file only, so it is enough to switch before an access.
Switch ==
  /\ AtFileAccess
  /\ other.pc # "done"
  /\ other' = Locals
  /\ pc' = other.pc
  /\ run' = other.run
  /\ worktrees' = other.worktrees
  /\ featureBranches' = other.featureBranches
  /\ cachedOrder' = other.cachedOrder
  /\ cachedNumbers' = other.cachedNumbers
  /\ loadedNumbers' = other.loadedNumbers
  /\ newPRNumbers' = other.newPRNumbers
  /\ prStatuses' = other.prStatuses
  /\ cacheUpdates' = other.cacheUpdates
  /\ result' = other.result
  /\ idx' = other.idx
  /\ locals' = other.locals
  /\ github' = other.github
  /\ batchOk' = other.batchOk
  /\ writes' = other.writes
  /\ log' = other.log
  /\ buf' = other.buf
  /\ me' = other.me
  /\ UNCHANGED <<remote, cacheFile, dirty, statusFailed, items, faults, prev,
                 fileSize, lastWrite, cmdVars>>

\* The list command is run while another invocation may be running in the
\* same repository: both get the same answer from listWorktrees.
InvokeBeside ==
  /\ pc = "idle"
  /\ \E wts \in WorktreeLists :
       /\ other.pc # "idle" => wts = other.worktrees
       /\ Start(wts)
  /\ UNCHANGED prev

NextRace ==
  \/ InvokeBeside
  \/ Gate
  \/ NoGitHub
  \/ LoadCached
  \/ LookupUncached
  \/ SaveNewRead
  \/ BatchFetch
  \/ ClassifyBranch
  \/ SaveUpdatesRead
  \/ SaveOpen
  \/ SaveWrite
  \/ Switch

\* Two concurrent invocations, every external command succeeding.
SpecRace == InitRepeat /\ [][NextRace]_vars

\* ------------------------------------------------- commands/sweep.ts
protectedBranches == {"main", "master"}

\* Variant of isProtected that protects main alone.
isProtected_MainOnly(branch) == branch = "main"

\* protectedBranches.includes(wt.branch)
isProtected(branch) == branch \in protectedBranches

\* The three continue statements at the head of the loop body: a worktree
\* without a branch, a protected branch, the current working directory.
skipsWorktree(wt, dir) ==
  \/ wt.bare \/ wt.detached \/ wt.branch = NoBranch
  \/ isProtected(wt.branch)
  \/ wt.path = dir

\* isMerged: the heads are equal, or both are known and the local head is an
\* ancestor of the review's head.
isMerged(localHeadSha, prHeadSha, ancestor) ==
  \/ localHeadSha = prHeadSha
  \/ localHeadSha # NullSha /\ prHeadSha # "" /\ ancestor

\* if (localHeadSha && prHeadSha && !isMerged): the branch has changes since
\* the review was merged.
hasLocalChanges(localHeadSha, prHeadSha, merged) ==
  localHeadSha # NullSha /\ prHeadSha # "" /\ ~merged

\* What no step of the sweep command touches.
sweepFrame == <<remote, cacheFile, run, pc, worktrees, featureBranches, cachedOrder,
                cachedNumbers, loadedNumbers, newPRNumbers, prStatuses, cacheUpdates,
                result, idx, locals, github, batchOk, writes, log, dirty, statusFailed,
                items, faults, prev, raceVars, defaultVars, graphVars>>

\* The sweep command checks the repository, the review CLI and the origin
\* remote, then lists the worktrees.  It exits when a check fails and returns
\* when there is no worktree.
SweepStart ==
  /\ sweepPc = "idle"
  /\ \E inRepo \in BOOLEAN, ghAvailable \in BOOLEAN, isGitHub \in BOOLEAN :
       \E opts \in [dryRun : BOOLEAN, force : BOOLEAN], dir \in WorkingDirs,
          wts \in SweepLists :
         /\ options' = opts
         /\ IF ~inRepo \/ ~ghAvailable \/ ~isGitHub
            THEN /\ sweepPc' = "exited"
                 /\ UNCHANGED <<currentDir, sweepWorktrees>>
            ELSE /\ currentDir' = dir
                 /\ sweepWorktrees' = wts
                 /\ sweepPc' = IF Len(wts) = 0 THEN "done" ELSE "loop"
  /\ UNCHANGED <<sweepIdx, seen, queried, removed, deleted, sweptCount>>
  /\ UNCHANGED sweepFrame

\* An iteration that ends at one of the first three continue statements.
SweepSkip ==
  /\ sweepPc = "loop"
  /\ sweepIdx <= Len(sweepWorktrees)
  /\ skipsWorktree(sweepWorktrees[sweepIdx], currentDir)
  /\ sweepIdx' = sweepIdx + 1
  /\ UNCHANGED <<sweepPc, seen, queried, removed, deleted, sweptCount>>
  /\ UNCHANGED <<options, currentDir, sweepWorktrees, sweepFrame>>

\* An iteration that asks for the merged review of the branch and, when there
\* is one, compares the local head with the review's head.  It ends here
\* without a merged review, with local changes, and in a dry run.
SweepCheck ==
  /\ sweepPc = "loop"
  /\ sweepIdx <= Len(sweepWorktrees)
  /\ ~skipsWorktree(sweepWorktrees[sweepIdx], currentDir)
  /\ \E prOk \in Outcomes("gh"), shaOk \in Outcomes("git"), ancOk \in Outcomes("git") :
       LET wt == sweepWorktrees[sweepIdx]
           mergedPR == getMergedPR(wt.branch, prOk)
           localHeadSha == getBranchHeadSha(wt.branch, shaOk)
           prHeadSha == mergedPR.headRefOid
           merged == isMerged(localHeadSha, prHeadSha,
                              isAncestor(localHeadSha, prHeadSha, ancOk))
           kept == mergedPR = NullPR \/ hasLocalChanges(localHeadSha, prHeadSha, merged)
       IN /\ queried' = queried \cup {wt.path}
          /\ seen' = [seen EXCEPT ![wt.branch] =
                        IF mergedPR = NullPR
                        THEN NoSighting
                        ELSE [mergedPR |-> mergedPR, localHeadSha |-> localHeadSha,
                              isMerged |-> YesNo(merged), kept |-> YesNo(kept)]]
          /\ sweepPc' = IF kept \/ options.dryRun THEN "loop" ELSE "remove"
          /\ sweepIdx' = IF kept \/ options.dryRun THEN sweepIdx + 1 ELSE sweepIdx
          /\ sweptCount' = IF ~kept /\ options.dryRun THEN sweptCount + 1 ELSE sweptCount
  /\ UNCHANGED <<removed, deleted>>
  /\ UNCHANGED <<options, currentDir, sweepWorktrees, sweepFrame>>

\* removeWorktree, then deleteBranch unless the removal failed; a failed
\* deletion is reported and the worktree still counts as swept.
SweepRemove ==
  /\ sweepPc = "remove"
  /\ \E hasChanges \in BOOLEAN, rmOk \in Outcomes("git"), delOk \in Outcomes("git") :
       LET wt == sweepWorktrees[sweepIdx]
           removeResult == removeWorktree(options.force, hasChanges, rmOk)
       IN /\ removed' = IF removeResult THEN removed \cup {wt.path} ELSE removed
          /\ deleted' = IF removeResult /\ delOk THEN deleted \cup {wt.branch} ELSE deleted
          /\ sweptCount' = IF removeResult THEN sweptCount + 1 ELSE sweptCount
  /\ sweepPc' = "loop"
  /\ sweepIdx' = sweepIdx + 1
  /\ UNCHANGED <<seen, queried>>
  /\ UNCHANGED <<options, currentDir, sweepWorktrees, sweepFrame>>

\* The loop is over: the summary is printed.
SweepEnd ==
  /\ sweepPc = "loop"
  /\ sweepIdx > Len(sweepWorktrees)
  /\ sweepPc' = "done"
  /\ UNCHANGED <<sweepIdx, seen, queried, removed, deleted, sweptCount>>
  /\ UNCHANGED <<options, currentDir, sweepWorktrees, sweepFrame>>

\* One run of the sweep command; every external command may fail.
InitSweep ==
  /\ remote \in Remotes
  /\ cacheFile = [ok |-> FALSE, prNumbers |-> EmptyCache]
  /\ origin = NoOrigin
  /\ Quiescent
  /\ faults = CommandKinds

NextSweep ==
  \/ SweepStart
  \/ SweepSkip
  \/ SweepCheck
  \/ SweepRemove
  \/ SweepEnd

SpecSweep == InitSweep /\ [][NextSweep]_vars

\* ------------------------------------- utils/git.ts (getDefaultBranch)
\* getDefaultBranch runs up to three git commands, one step each, and returns
\* at the first that answers; an answer it did not ask for counts as false.
failuresAfter(ok) == IF ok THEN probed.failures ELSE probed.failures + 1

\* What no step of getDefaultBranch touches.
defaultFrame == <<remote, cacheFile, run, pc, worktrees, featureBranches, cachedOrder,
                  cachedNumbers, loadedNumbers, newPRNumbers, prStatuses, cacheUpdates,
                  result, idx, locals, github, batchOk, writes, log, dirty, statusFailed,
                  items, faults, prev, raceVars, sweepVars, graphVars, origin>>

\* execGit(["symbolic-ref", "refs/remotes/origin/HEAD"]); on success the
\* prefix is taken off the output and returned.
DefaultHead ==
  /\ dbPc = "idle"
  /\ \E ok \in Outcomes("git") :
       LET head == symbolicRef(origin, ok)
       IN /\ probed' = [probed EXCEPT !.head = YesNo(head.success),
                                       !.failures = failuresAfter(ok)]
          /\ IF head.success
             THEN /\ dbResult' = getDefaultBranch(head, FALSE, FALSE)
                  /\ dbPc' = "returned"
             ELSE /\ dbPc' = "main"
                  /\ UNCHANGED dbResult
  /\ UNCHANGED defaultFrame

\* if (remoteBranchExists("main", "origin", cwd)) return "main";
DefaultMain ==
  /\ dbPc = "main"
  /\ \E ok \in Outcomes("git") :
       LET head == symbolicRef(origin, FALSE)
           mainExists == remoteBranchExists(<<"main">>, origin, ok)
       IN /\ probed' = [probed EXCEPT !.main = YesNo(mainExists),
                                       !.failures = failuresAfter(ok)]
          /\ IF mainExists
             THEN /\ dbResult' = getDefaultBranch(head, mainExists, FALSE)
                  /\ dbPc' = "returned"
             ELSE /\ dbPc' = "master"
                  /\ UNCHANGED dbResult
  /\ UNCHANGED defaultFrame

\* if (remoteBranchExists("master", "origin", cwd)) return "master";
\* return "main";
DefaultMaster ==
  /\ dbPc = "master"
  /\ \E ok \in Outcomes("git") :
       LET head == symbolicRef(origin, FALSE)
           masterExists == remoteBranchExists(<<"master">>, origin, ok)
       IN /\ probed' = [probed EXCEPT !.master = YesNo(masterExists),
                                       !.failures = failuresAfter(ok)]
          /\ dbResult' = getDefaultBranch(head, FALSE, masterExists)
          /\ dbPc' = "returned"
  /\ UNCHANGED defaultFrame

\* One call of getDefaultBranch in a repository whose origin is in any of
\* the modelled states; every git command may fail.
InitDefault ==
  /\ remote = [n \in PRNumbers |-> NullPR]
  /\ cacheFile = [ok |-> FALSE, prNumbers |-> EmptyCache]
  /\ origin \in Origins
  /\ Quiescent
  /\ faults = {"git"}

NextDefault ==
  \/ DefaultHead
  \/ DefaultMain
  \/ DefaultMaster

SpecDefault == InitDefault /\ [][NextDefault]_vars

\* ------------------------- the merged-review rules on any repository
\* The divergence queries of utils/git.ts and the MERGED arm of
\* getWorktreeStatuses, run on a repository that grew commit by commit.
RECURSIVE ReachIn(_, _)
\* Commits of g reachable from c by parent links, c included.
ReachIn(g, c) == {c} \cup UNION {ReachIn(g, p) : p \in g[c]}

\* git rev-parse refs/heads/<branch> in g, for a branch whose tip is tip.
getBranchHeadShaIn(tip, ok) == IF ok THEN tip ELSE NullCommit

\* git cat-file -t <sha> in g.
commitExistsIn(g, sha, ok) == ok /\ sha \in 1..Len(g)

\* Variant of hasNonMergeCommitsAfterIn that counts merge commits too.
hasNonMergeCommitsAfterIn_AnyCommit(g, tip, afterSha, ok) ==
  /\ ok
  /\ afterSha \in 1..Len(g)
  /\ ReachIn(g, tip) \ ReachIn(g, afterSha) # {}

\* git log --no-merges <afterSha>..refs/heads/<branch> in g.
hasNonMergeCommitsAfterIn(g, tip, afterSha, ok) ==
  /\ ok
  /\ afterSha \in 1..Len(g)
  /\ \E c \in ReachIn(g, tip) \ ReachIn(g, afterSha) : Cardinality(g[c]) <= 1

\* Variant of mergedVerdict without the test for non-merge commits.
mergedVerdict_HeadOrChanges(localSha, prHead, exists, nonMerge, freshPR, freshExists, freshNonMerge) ==
  IF localSha = prHead
  THEN [status |-> "Merged", newer |-> FALSE, asked |-> {}]
  ELSE IF ~exists
  THEN [status |-> "Merged", newer |-> FALSE, asked |-> {"commitExists"}]
  ELSE [status |-> "Changes since Merge", newer |-> FALSE,
        asked |-> {"commitExists", "findPRForBranch"}]

\* prStatus.state === "MERGED": the status, whether it is that of a newer
\* review, and the queries made after the head was read, given what the
\* queries answer (an answer that is not asked for is not used).
mergedVerdict(localSha, prHead, exists, nonMerge, freshPR, freshExists, freshNonMerge) ==
  IF localSha = prHead
  THEN [status |-> "Merged", newer |-> FALSE, asked |-> {}]
  ELSE IF ~exists
  THEN [status |-> "Merged", newer |-> FALSE, asked |-> {"commitExists"}]
  ELSE IF ~nonMerge
  THEN [status |-> "Merged", newer |-> FALSE,
        asked |-> {"commitExists", "hasNonMergeCommitsAfter"}]
  ELSE IF freshPR.kind = "newer"
  THEN [status |-> IF localSha = freshPR.head \/ ~freshExists \/ ~freshNonMerge
                   THEN "Merged" ELSE "Changes since Merge",
        newer |-> TRUE,
        asked |-> {"commitExists", "hasNonMergeCommitsAfter", "findPRForBranch"}]
  ELSE [status |-> "Changes since Merge", newer |-> FALSE,
        asked |-> {"commitExists", "hasNonMergeCommitsAfter", "findPRForBranch"}]

\* What no step on a grown repository touches.
graphFrame == <<remote, cacheFile, run, pc, worktrees, featureBranches, cachedOrder,
                cachedNumbers, loadedNumbers, newPRNumbers, prStatuses, cacheUpdates,
                result, idx, locals, github, batchOk, writes, log, dirty, statusFailed,
                items, faults, prev, raceVars, sweepVars, defaultVars>>

\* A commit is made on top of any of the commits there are: none for a root,
\* one for an ordinary commit, more for a merge.
Commit ==
  /\ gPc = "idle"
  /\ Len(parents) < MaxCommits
  /\ \E ps \in SUBSET (1..Len(parents)) : parents' = Append(parents, ps)
  /\ UNCHANGED <<gPc, probe, verdict>>
  /\ UNCHANGED graphFrame

\* The answers findPRForBranch can give in the MERGED arm: nothing, a review
\* that is the resolved one or is not merged, a different merged review.
FreshAnswers(n) == {NoFresh, [kind |-> "other", head |-> MissingCommit]}
                     \cup [kind : {"newer"}, head : 0..n]

\* The outcomes of a command that is run only when the code reaches it.
OutcomesIf(reached, kind) == IF reached THEN Outcomes(kind) ELSE {TRUE}

\* The MERGED arm for a branch with any tip and a review with any head; the
\* lookup answers only when the code reaches it.
ClassifyMerged ==
  /\ gPc = "idle"
  /\ Len(parents) >= 1
  /\ \E tip \in 1..Len(parents), prHead \in 0..Len(parents), okSha \in Outcomes("git") :
       LET localSha == getBranchHeadShaIn(tip, okSha)
           differs == localSha # prHead
       IN \E okEx \in OutcomesIf(differs, "git") :
            LET exists == commitExistsIn(parents, prHead, okEx)
            IN \E okNm \in OutcomesIf(differs /\ exists, "git") :
                 LET nonMerge == hasNonMergeCommitsAfterIn(parents, tip, prHead, okNm)
                     looksUp == differs /\ exists /\ nonMerge
                 IN \E freshPR \in IF looksUp THEN FreshAnswers(Len(parents))
                                    ELSE {NoFresh} :
                      LET newer == freshPR.kind = "newer"
                          differs2 == newer /\ localSha # freshPR.head
                      IN \E okEx2 \in OutcomesIf(differs2, "git") :
                           LET freshExists == commitExistsIn(parents, freshPR.head, okEx2)
                           IN \E okNm2 \in OutcomesIf(differs2 /\ freshExists, "git") :
                                /\ probe' = [tip |-> tip, prHead |-> prHead,
                                             freshPR |-> freshPR]
                                /\ verdict' =
                                     mergedVerdict(localSha, prHead, exists, nonMerge,
                                                   freshPR, freshExists,
                                                   hasNonMergeCommitsAfterIn(
                                                     parents, tip, freshPR.head, okNm2))
  /\ gPc' = "classified"
  /\ UNCHANGED parents
  /\ UNCHANGED graphFrame

\* The merged-review rules on every repository of up to MaxCommits commits;
\* every git command may fail, and the lookup may come back empty.
InitGraph ==
  /\ remote = [n \in PRNumbers |-> NullPR]
  /\ cacheFile = [ok |-> FALSE, prNumbers |-> EmptyCache]
  /\ origin = NoOrigin
  /\ Quiescent
  /\ faults = {"git"}

NextGraph ==
  \/ Commit
  \/ ClassifyMerged

SpecGraph == InitGraph /\ [][NextGraph]_vars

\* ---------------------------------------------------------------- claims
\* Statuses getNoPRStatus gives a branch without a review.
NoReviewStatuses == {"Changes", "Empty"}

Done == pc = "done"
GateOpen == github.ghAvailable /\ github.isGitHub
Branches == Range(branchesOf(worktrees))
Features == Range(featureBranches)

\* Positions of the calls of op in the log, and those made for one branch.
CallsOf(op) == {i \in 1..Len(log) : log[i].op = op}
CallsFor(op, branch) == {i \in CallsOf(op) : log[i].br = branch}
BatchCalls == CallsOf("batchGetPRStatuses")
NoDuplicates(xs) == \A i, j \in 1..Len(xs) : xs[i] = xs[j] => i = j

C3_OneBatchAfterLookups ==
  /\ pc \in {"gate", "nogithub", "load", "lookup", "batch"} => BatchCalls = {}
  /\ (pc = "classify" \/ (Done /\ GateOpen /\ Features # {})) =>
       /\ Cardinality(BatchCalls) = 1
       /\ \A i \in BatchCalls :
            /\ NoDuplicates(log[i].ids)
            /\ Range(log[i].ids) =
                 ({loadedNumbers[b] : b \in Features} \cup
                  {newPRNumbers[b] : b \in Features}) \ {0}
            /\ \A b \in Features :
                 loadedNumbers[b] = 0 =>
                   \E j \in CallsFor("findPRForBranch", b) : j < i

\* C3 witness: a finished run in which two branches resolved to the same id,
\* one from the cache and one by lookup, and the batch fetch asked for it once.
C3_Witness ==
  /\ Done /\ GateOpen
  /\ \E b, c \in Features :
       /\ b # c
       /\ loadedNumbers[b] # 0 /\ loadedNumbers[c] = 0
       /\ newPRNumbers[c] = loadedNumbers[b]
  /\ \E i \in BatchCalls : Len(log[i].ids) = 1

\* The feature branches whose iteration of the classification loop is over.
Classified ==
  IF pc = "classify" THEN {featureBranches[i] : i \in 1..(idx - 1)}
  ELSE IF Done /\ GateOpen THEN Features
  ELSE {}

Lookups(branch) == Cardinality(CallsFor("findPRForBranch", branch))
One(cond) == IF cond THEN 1 ELSE 0

\* The divergence queries issued for one branch.
DivergenceQueries(branch) ==
  CallsFor("getBranchHeadSha", branch) \cup CallsFor("commitExists", branch)
    \cup CallsFor("hasNonMergeCommitsAfter", branch)

\* C4 (as stated): findPRForBranch is called only for branches that had no
\* cached id when the cache was loaded.
C4_AsStated ==
  \A i \in CallsOf("findPRForBranch") : loadedNumbers[log[i].br] = 0

\* C4 (amended): before the batch fetch findPRForBranch is called only for
\* branches without a cached id.  A branch with a cached id is looked up only
\* while it is classified: once when the fetched review names another head
\* branch, once when the resolved review is merged, its head exists locally
\* and the branch has non-merge commits after it, and not otherwise.
C4_LookupsOfCachedBranches ==
  /\ \A i \in CallsOf("findPRForBranch") :
       (\A j \in BatchCalls : i < j) => loadedNumbers[log[i].br] = 0
  /\ \A b \in Classified :
       loadedNumbers[b] # 0 =>
         LET fetched == prStatuses[loadedNumbers[b]]
             prStatus == locals[b].prStatus
             diverged == /\ prStatus.state = "MERGED"
                         /\ locals[b].localSha # prStatus.headRefOid
                         /\ locals[b].headExists = "yes"
                         /\ prStatus.headRefOid \in Commits
                         /\ locals[b].nonMerge = "yes"
                         /\ hasNonMergeCommitsAfter(b, prStatus.headRefOid, TRUE)
         IN Lookups(b) =
              One(fetched # NullPR /\ fetched.headRefName # b) + One(diverged)

\* C4 witness: a finished run in which one cached branch, whose review is
\* open and its own, was not looked up and another cached branch, whose
\* fetched review names a different branch, was looked up once.
C4_Witness ==
  /\ Done /\ GateOpen
  /\ \E b, c \in Features :
       /\ loadedNumbers[b] # 0 /\ loadedNumbers[c] # 0
       /\ locals[b].prStatus.state = "OPEN" /\ ~locals[b].stale /\ Lookups(b) = 0
       /\ locals[c].stale /\ Lookups(c) = 1

C6_OpenClosedNeedNoAncestry ==
  \A b \in Classified :
    LET prStatus == locals[b].prStatus
    IN /\ prStatus.state = "OPEN" =>
            /\ result[b] = [status |-> "Open", prNumber |-> prStatus.number]
            /\ DivergenceQueries(b) = {}
       /\ prStatus.state = "CLOSED" =>
            /\ result[b] = [status |-> "Closed", prNumber |-> prStatus.number]
            /\ DivergenceQueries(b) = {}
       /\ DivergenceQueries(b) # {} => prStatus.state = "MERGED"

\* C6 witness: a finished run with one branch Closed, one branch Open, and
\* no divergence query in the log.
C6_Witness ==
  /\ Done /\ GateOpen
  /\ \E b, c \in Features :
       /\ result[b].status = "Closed" /\ locals[b].prStatus.state = "CLOSED"
       /\ result[c].status = "Open" /\ locals[c].prStatus.state = "OPEN"
  /\ \A b \in Features : DivergenceQueries(b) = {}

\* C7: a non-default branch with no resolved review id (no cache entry and
\* nothing found by the lookup), or whose id has no entry in the result of
\* the batch fetch, gets a no-review status and a null review id.
C7_UnresolvedIsNoPR ==
  \A b \in Classified :
    (cachedNumbers[b] = 0 \/ prStatuses[cachedNumbers[b]] = NullPR) =>
      /\ result[b].status \in NoReviewStatuses
      /\ result[b].prNumber = 0

\* C7 witness: a finished run with a successful batch fetch in which one
\* branch has no id at all and another has a cached id the remote does not
\* know; both have a no-review status.
C7_Witness ==
  /\ Done /\ GateOpen /\ batchOk = "yes"
  /\ \E b, c \in Features :
       /\ cachedNumbers[b] = 0 /\ Lookups(b) = 1
       /\ cachedNumbers[c] # 0 /\ prStatuses[cachedNumbers[c]] = NullPR
       /\ result[b].status \in NoReviewStatuses
       /\ result[c].status \in NoReviewStatuses /\ result[c].prNumber = 0

C9_ExactHeadIsMerged ==
  \A b \in Classified :
    LET prStatus == locals[b].prStatus
    IN (prStatus.state = "MERGED" /\ BranchTip[b] = prStatus.headRefOid) =>
         result[b] = [status |-> "Merged", prNumber |-> prStatus.number]

\* C9 witness: a finished run in which a branch with a cached merged review
\* was found Merged by the head comparison alone.
C9_Witness ==
  /\ Done /\ GateOpen
  /\ \E b \in Features :
       /\ loadedNumbers[b] # 0
       /\ locals[b].prStatus.state = "MERGED"
       /\ locals[b].localSha = locals[b].prStatus.headRefOid
       /\ CallsFor("commitExists", b) = {}
       /\ result[b] = [status |-> "Merged", prNumber |-> loadedNumbers[b]]

\* The case of C10: a classified branch whose cached review is its own and
\* merged, with the review's head present locally and non-merge commits
\* after it.
DivergedFromCached(b) ==
  /\ b \in Classified
  /\ loadedNumbers[b] # 0
  /\ ~locals[b].stale
  /\ locals[b].prStatus.state = "MERGED"
  /\ locals[b].headExists = "yes"
  /\ locals[b].nonMerge = "yes"

\* The re-run lookup of the branch found a different review that is merged.
FoundNewerMerged(b) ==
  /\ locals[b].freshPR # NullPR
  /\ locals[b].freshPR.number # loadedNumbers[b]
  /\ locals[b].freshPR.state = "MERGED"

\* The last cache write of a finished run succeeded.
LastWriteOk == writes # <<>> /\ writes[Len(writes)].ok

C10_WitnessPlain ==
  /\ Done
  /\ \E b \in Features :
       /\ DivergedFromCached(b) /\ ~FoundNewerMerged(b)
       /\ locals[b].freshPR.number = loadedNumbers[b]
       /\ result[b] = [status |-> "Changes since Merge", prNumber |-> loadedNumbers[b]]

Listed == pc = "listed"

Repeated == prev.run > 0
AllCached == \A b \in Features : loadedNumbers[b] # 0

\* C12 (as stated): when no command fails and worktrees, repository and remote
\* are unchanged, a repeated call ends with the classifications of the call
\* before it and leaves the cache file as that call left it, and when every
\* listed branch had a cached id it calls findPRForBranch for no branch.
C12_AsStated ==
  (Done /\ Repeated /\ github = prev.github) =>
    /\ result = prev.result
    /\ cacheFile = prev.cacheFile
    /\ AllCached => CallsOf("findPRForBranch") = {}

\* C12 (amended): when no command fails and worktrees, repository and remote
\* are unchanged, a repeated call ends with the classifications of the call
\* before it, writes nothing to the cache and leaves the file as that call
\* left it; it looks up no branch that has a cached id before the batch
\* fetch, and afterwards only branches whose cached review names another
\* head branch or is merged with non-merge commits after its head.
C12_RepeatIsIdempotent ==
  (Done /\ Repeated /\ github = prev.github) =>
    /\ result = prev.result
    /\ cacheFile = prev.cacheFile
    /\ writes = <<>>
    /\ \A b \in Features :
         loadedNumbers[b] # 0 =>
           /\ newPRNumbers[b] = 0
           /\ Lookups(b) = One(locals[b].stale \/ locals[b].relooked)

\* C12 witness: a repeated call, every listed branch cached, that ended with
\* an open and a merged branch as the call before it did, after the call
\* before it had stored a number for one of them.
C12_Witness ==
  /\ Done /\ Repeated /\ GateOpen /\ github = prev.github
  /\ Cardinality(Features) = 2 /\ AllCached
  /\ result = prev.result /\ cacheFile = prev.cacheFile
  /\ \E b \in Features : prev.written[b] # 0
  /\ \E b, c \in Features : result[b].status = "Open" /\ result[c].status = "Merged"

\* The cache of the running call has been loaded.
Loaded == GateOpen /\ pc \in {"lookup", "batch", "classify", "done"}

EngineStatuses ==
  {"Open", "Closed", "Merged", "Changes since Merge", "Changes", "Empty"}

\* Some step of the running call can be taken.
CanStep ==
  ENABLED (Gate \/ NoGitHub \/ LoadCached \/ LookupUncached \/ SaveNew
             \/ BatchFetch \/ ClassifyBranch \/ SaveUpdates)

AllWritesFailed == \A i \in 1..Len(writes) : ~writes[i].ok

ResolvingLookupMissed(b) ==
  \/ loadedNumbers[b] = 0 /\ newPRNumbers[b] = 0
  \/ locals[b].stale /\ locals[b].prNumber = 0

\* The re-run lookup for a merged branch with new commits failed or found nothing.
RerunLookupMissed(b) == locals[b].relooked /\ locals[b].freshPR = NullPR

\* The result of c follows from what was resolved and queried for c alone:
\* c was looked up if it had no cached number, its number is the cached one
\* or the one its own lookup found, the status fetched for it is the remote's
\* record of that number, and its result is the one its own locals give.
OwnResult(c) ==
  LET n == IF loadedNumbers[c] # 0 THEN loadedNumbers[c] ELSE newPRNumbers[c]
      loc == locals[c]
      st == loc.prStatus
  IN /\ loadedNumbers[c] = 0 => Lookups(c) >= 1
     /\ loc.prNumber0 = n
     /\ loc.batchStatus = IF n # 0 /\ batchOk = "yes" THEN remote[n] ELSE NullPR
     /\ ~loc.stale => loc.prNumber = n /\ st = loc.batchStatus
     /\ IF loc.prNumber = 0 \/ st = NullPR
        THEN result[c].status \in NoReviewStatuses /\ result[c].prNumber = 0
        ELSE IF st.state = "OPEN" THEN result[c] = [status |-> "Open", prNumber |-> loc.prNumber]
        ELSE IF st.state = "CLOSED" THEN result[c] = [status |-> "Closed", prNumber |-> loc.prNumber]
        ELSE IF loc.localSha = st.headRefOid \/ loc.headExists = "no" \/ loc.nonMerge = "no"
        THEN result[c] = [status |-> "Merged", prNumber |-> loc.prNumber]
        ELSE IF isNewerMerged(loc.freshPR, loc.prNumber)
        THEN /\ result[c].status \in {"Merged", "Changes since Merge"}
             /\ result[c].prNumber = loc.freshPR.number
        ELSE result[c] = [status |-> "Changes since Merge", prNumber |-> loc.prNumber]

\* C15 (as stated): when a single-branch lookup for a branch fails or finds
\* nothing, that branch gets a no-review status without an id, and the result
\* of every other branch follows from its own data.
C15_AsStated ==
  (Done /\ GateOpen) =>
    \A b \in Features :
      (ResolvingLookupMissed(b) \/ RerunLookupMissed(b)) =>
        /\ result[b].status \in NoReviewStatuses /\ result[b].prNumber = 0
        /\ \A c \in Features \ {b} : OwnResult(c)

\* C15 (amended): when the lookup that resolves a branch's review (for an
\* uncached branch, or for a stale cached one) fails or finds nothing, that
\* branch gets a no-review status without an id; when the re-run lookup for a
\* merged branch with new commits fails or finds nothing, that branch stays
\* Changes since Merge with its resolved id; either way the call finishes and
\* the result of every other branch follows from its own data.
C15_FailureStaysLocal ==
  (Done /\ GateOpen) =>
    \A b \in Features :
      /\ ResolvingLookupMissed(b) =>
           result[b].status \in NoReviewStatuses /\ result[b].prNumber = 0
      /\ RerunLookupMissed(b) =>
           result[b] = [status |-> "Changes since Merge", prNumber |-> locals[b].prNumber]
      /\ (ResolvingLookupMissed(b) \/ RerunLookupMissed(b)) =>
           \A c \in Features \ {b} : OwnResult(c)

\* C15 witness: the lookup of the first uncached branch found nothing although
\* the branch has a review, and the second branch, looked up after it, is
\* Open with the number its own lookup found.
C15_Witness ==
  /\ Done /\ GateOpen /\ featureBranches = <<"fx", "fy">>
  /\ loadedNumbers = EmptyNumbers
  /\ ResolvingLookupMissed("fx") /\ findPRForBranch("fx", TRUE) # NullPR
  /\ result["fx"].status \in NoReviewStatuses
  /\ newPRNumbers["fy"] # 0
  /\ result["fy"] = [status |-> "Open", prNumber |-> newPRNumbers["fy"]]

\* The statuses a list item can carry.
ListStatuses == EngineStatuses \cup {"Main", "Uncommitted Changes"}

WithBranch == {i \in 1..Len(worktrees) : worktrees[i].branch # NoBranch}
StatusMapKeys == {b \in BranchNames : result[b] # NoResult}

\* The status map and the items agree with the worktrees: one entry per
\* worktree with a branch, none for any other, and the entries other than
\* the default branch's are as many as the worktrees with a branch, less one
\* when the default branch has a worktree.
OneStatusEach ==
  /\ (Done \/ Listed) =>
       /\ StatusMapKeys = Branches
       /\ \A i \in 1..Len(worktrees) : worktrees[i].branch \in BranchNames \cup {NoBranch}
       /\ \A i, j \in WithBranch : worktrees[i].branch = worktrees[j].branch => i = j
       /\ \A b \in Branches :
            result[b].status \in
              IF b = DefaultBranchName THEN {"Main"} ELSE EngineStatuses
       /\ Cardinality(StatusMapKeys \ {DefaultBranchName}) =
            Cardinality(WithBranch) - One(DefaultBranchName \in Branches)
  /\ Listed =>
       \A i \in 1..Len(worktrees) :
         IF worktrees[i].branch = NoBranch
         THEN itemOf(worktrees[i], items) = NoResult
         ELSE itemOf(worktrees[i], items).status \in ListStatuses

\* C16 (as stated): one status of the closed set per worktree with a branch,
\* none for bare and detached worktrees, which are printed with their own
\* markers however the list is printed, and the count of classified entries.
C16_AsStated ==
  /\ OneStatusEach
  /\ Listed =>
       \A i \in 1..Len(worktrees), json \in BOOLEAN :
         LET wt == worktrees[i]
             shown == statusShown(wt, itemOf(wt, items), json)
         IN /\ wt.bare => shown = "(bare)"
            /\ wt.detached => shown = "(detached)"

\* C16 (amended): one status of the closed set per worktree with a branch,
\* none for bare and detached worktrees, and the count of classified entries;
\* the table prints a bare or detached worktree with its marker and any
\* other worktree with its status, while --json prints the items, in which a
\* bare or detached worktree has a null status.
C16_OneStatusPerBranchWorktree ==
  /\ OneStatusEach
  /\ Listed =>
       \A i \in 1..Len(worktrees) :
         LET wt == worktrees[i]
             item == itemOf(wt, items)
         IN /\ wt.bare => /\ statusShown(wt, item, FALSE) = "(bare)"
                          /\ statusShown(wt, item, TRUE) = "null"
            /\ wt.detached => /\ statusShown(wt, item, FALSE) = "(detached)"
                              /\ statusShown(wt, item, TRUE) = "null"
            /\ wt.branch # NoBranch =>
                 \A json \in BOOLEAN : statusShown(wt, item, json) = item.status

\* C16 witness: a listing of a bare worktree, the default branch, a detached
\* worktree and one feature branch: two entries in the status map, one of
\* them classified.
C16_Witness ==
  /\ Listed
  /\ worktrees = <<BareWT, WT("main"), DetachedWT, WT("fx")>>
  /\ StatusMapKeys = {"main", "fx"}
  /\ items["main"].status = "Main"
  /\ items["fx"].status \in ListStatuses \ {"Main"}

\* Both concurrent invocations are over.
Quiet == pc = "done" /\ other.pc = "done"

\* C17 (as stated): when two concurrent invocations are over, the cache file
\* is the whole map the last writer wrote, and the two invocations, run on the
\* same worktrees with the same gate answers, report the same statuses.
C17_AsStated ==
  Quiet =>
    /\ lastWrite.by # 0 => cacheFile = [ok |-> TRUE, prNumbers |-> lastWrite.prNumbers]
    /\ (GateOpen /\ other.github = github) => result = other.result

\* What does hold when two concurrent invocations are over: the cache file
\* is the map the last writer wrote or does not parse, and invocations with
\* the same gate answers report the same statuses.
RaceOutcome ==
  Quiet =>
    /\ lastWrite.by # 0 =>
         \/ cacheFile = [ok |-> TRUE, prNumbers |-> lastWrite.prNumbers]
         \/ ~cacheFile.ok
    /\ (GateOpen /\ other.github = github) => result = other.result

\* A mapping one invocation wrote is missing from the parsable file the other
\* one left.
LostUpdate ==
  /\ Quiet /\ cacheFile.ok /\ lastWrite.by = me
  /\ \E b \in BranchNames :
       /\ Written(other.writes)[b] # 0
       /\ cacheFile.prNumbers[b] = 0

\* Worktrees the sweep command is to leave alone whatever their reviews say:
\* bare ones, detached ones, those on main or master.
Untouchable(wt) == wt.bare \/ wt.detached \/ wt.branch \in {"main", "master"}

\* C18: the sweep command removes no worktree and deletes no branch of main
\* or master, of a bare or detached worktree, or of the worktree at the
\* current working directory, and it asks for the merged review of no
\* worktree that is bare, detached, or on main or master.
C18_ProtectedNeverSwept ==
  \A i \in 1..Len(sweepWorktrees) :
    LET wt == sweepWorktrees[i]
    IN /\ (Untouchable(wt) \/ wt.path = currentDir) =>
            wt.path \notin removed /\ wt.branch \notin deleted
       /\ Untouchable(wt) => wt.path \notin queried

\* C18 witness: a finished sweep of a bare worktree, master, a detached
\* worktree and two feature branches, run from the worktree of fx: fy was
\* removed and deleted, fx has a merged review of its very head and is left.
C18_Witness ==
  /\ sweepPc = "done"
  /\ {SweepBare, SweepDetached, SweepWT("/p/master", "master")}
       \subseteq Range(sweepWorktrees)
  /\ currentDir = "/p/fx"
  /\ getMergedPR("fx", TRUE) # NullPR
  /\ getMergedPR("fx", TRUE).headRefOid = BranchTip["fx"]
  /\ "/p/fy" \in removed /\ "fy" \in deleted
  /\ queried = {"/p/fy"}

\* The worktrees whose iteration of the sweep loop is over.
Swept == {sweepWorktrees[i] : i \in 1..(sweepIdx - 1)}

\* The branch holds commits the head of the review does not reach.
CommitsBeyond(branch, pr) ==
  pr.headRefOid \in Commits /\ BranchTip[branch] \notin Reach(pr.headRefOid)

\* A worktree is removed only with a merged review whose head the local head
\* equals or is an ancestor of, or with a local head that could not be read.
RemovedOnlyIfMerged ==
  \A wt \in Range(sweepWorktrees) :
    wt.path \in removed =>
      LET pr == seen[wt.branch].mergedPR
      IN /\ pr # NullPR
         /\ pr = getMergedPR(wt.branch, TRUE)
         /\ \/ BranchTip[wt.branch] = pr.headRefOid
            \/ pr.headRefOid \in Commits /\ BranchTip[wt.branch] \in Reach(pr.headRefOid)
            \/ seen[wt.branch].localHeadSha = NullSha

\* A dry run removes no worktree and deletes no branch.
DryRunTouchesNothing == options.dryRun => removed = {} /\ deleted = {}

BranchOf(ref) == SubSeq(ref, Len(OriginPrefix) + 1, Len(ref))

\* The default branch the state of origin stands for.
DefaultOf(o) ==
  IF o.head # <<>> THEN BranchOf(o.head)
  ELSE IF <<"main">> \in o.branches THEN <<"main">>
  ELSE IF <<"master">> \in o.branches THEN <<"master">>
  ELSE <<"main">>

\* C20: getDefaultBranch returns the branch the symbolic HEAD of origin names
\* when that query succeeds; otherwise main when the probe for a remote main
\* finds it; otherwise master when the probe for a remote master finds it;
\* otherwise main.  It returns a branch name on every path, and when no git
\* command fails that name is the one the state of origin stands for.
C20_DefaultBranchFallbacks ==
  /\ dbPc \in {"idle", "main", "master", "returned"}
  /\ dbPc # "returned" => ENABLED NextDefault
  /\ dbPc = "returned" =>
       /\ dbResult \in RemoteBranches
       /\ probed.head = "yes" => OriginPrefix \o dbResult = origin.head
       /\ (probed.head = "no" /\ probed.main = "yes") =>
            dbResult = <<"main">> /\ <<"main">> \in origin.branches
       /\ (probed.head = "no" /\ probed.main = "no" /\ probed.master = "yes") =>
            dbResult = <<"master">> /\ <<"master">> \in origin.branches
       /\ (probed.head = "no" /\ probed.main = "no" /\ probed.master = "no") =>
            dbResult = <<"main">>
       /\ probed.failures = 0 => dbResult = DefaultOf(origin)

\* C20 witness: origin has no symbolic HEAD and no main but a master; all
\* three commands ran properly and master was returned.
C20_Witness ==
  /\ dbPc = "returned"
  /\ origin = [head |-> <<>>, branches |-> {<<"master">>}]
  /\ probed = [head |-> "no", main |-> "no", master |-> "yes", failures |-> 0]
  /\ dbResult = <<"master">>

\* The review the batch fetch returned for the id a branch had before the
\* classification loop, null without an id or without an answer.
Fetched(b) == IF cachedNumbers[b] # 0 THEN prStatuses[cachedNumbers[b]] ELSE NullPR

\* The fetched review names another head branch than b.
NamesOther(b) == Fetched(b) # NullPR /\ Fetched(b).headRefName # b

\* The result of b is what the precedence rules give for the review resolved
\* for it and the answers of its divergence queries.
RuledBy(b) ==
  LET loc == locals[b]
      n == loc.prNumber
      prStatus == loc.prStatus
  IN IF n = 0 \/ prStatus = NullPR
     THEN result[b].status \in NoReviewStatuses /\ result[b].prNumber = 0
     ELSE IF prStatus.state = "OPEN"
     THEN result[b] = [status |-> "Open", prNumber |-> n]
     ELSE IF prStatus.state = "CLOSED"
     THEN result[b] = [status |-> "Closed", prNumber |-> n]
     ELSE IF loc.localSha = prStatus.headRefOid \/ loc.headExists = "no"
             \/ loc.nonMerge = "no"
     THEN result[b] = [status |-> "Merged", prNumber |-> n]
     ELSE IF isNewerMerged(loc.freshPR, n)
     THEN /\ result[b].status \in {"Merged", "Changes since Merge"}
          /\ result[b].prNumber = loc.freshPR.number
     ELSE result[b] = [status |-> "Changes since Merge", prNumber |-> n]

\* What C21 says of a branch whose fetched review names another branch, but
\* for the persisted cache: the entry is treated as stale, one lookup of the
\* branch follows the batch fetch, the review it finds is the resolved one,
\* its id is queued as the cache update of the branch, and the branch is
\* classified from it by the precedence rules.
StaleCorrected(b) ==
  /\ locals[b].stale
  /\ \E i \in CallsFor("findPRForBranch", b) : \A j \in BatchCalls : j < i
  /\ locals[b].prStatus \in {NullPR, findPRForBranch(b, TRUE)}
  /\ locals[b].prNumber = locals[b].prStatus.number
  /\ locals[b].prNumber # 0 => cacheUpdates[b] = locals[b].prNumber
  /\ locals[b].prNumber = 0 => cacheUpdates[b] = 0
  /\ RuledBy(b)

LateLookups(b) ==
  {i \in CallsFor("findPRForBranch", b) : \E j \in BatchCalls : j < i}

\* Lookups are bounded: a branch is looked up at most once before the batch
\* fetch, and afterwards once when its entry is stale and once when its merged
\* review has non-merge commits after it; twice at most in all.
BoundedLookups ==
  \A b \in Features :
    /\ Cardinality(CallsFor("findPRForBranch", b) \ LateLookups(b)) <= 1
    /\ b \in Classified =>
         Cardinality(LateLookups(b)) = One(locals[b].stale) + One(locals[b].relooked)
    /\ b \notin Classified => LateLookups(b) = {}
    /\ Lookups(b) <= 2

\* A started invocation that has not returned.
Running == pc \in {"gate", "nogithub", "load", "lookup", "batch", "classify"}

\* Every listed branch has a status.
AllClassified == \A b \in Branches : result[b].status \in ListStatuses

\* C22: the stale-entry lookup is made at most once per branch and is not
\* repeated after it answered, a branch is looked up at most twice in an
\* invocation, and every invocation whose commands return comes to its end
\* with a status for every branch.
C22_BoundedAndTerminates ==
  /\ [](BoundedLookups /\ (Done => AllClassified))
  /\ Running ~> Done

\* C22 witness: a finished run in which a branch with a stale entry was
\* looked up for the stale entry and again for its merged review, twice in all.
C22_Witness ==
  /\ Done /\ GateOpen
  /\ \E b \in Features :
       /\ locals[b].stale /\ locals[b].relooked
       /\ Lookups(b) = 2
  /\ AllClassified

\* The review resolved for b is merged.
ResolvedMerged(b) == locals[b].prNumber # 0 /\ locals[b].prStatus.state = "MERGED"

\* C23: a branch whose resolved review is merged and whose review head is no
\* commit of the local repository is Merged with that review's id; no
\* non-merge-commit query is made for it and it is not looked up again.
C23_MissingHeadIsMerged ==
  \A b \in Classified :
    (ResolvedMerged(b) /\ locals[b].prStatus.headRefOid \notin Commits) =>
      /\ result[b] = [status |-> "Merged", prNumber |-> locals[b].prNumber]
      /\ CallsFor("hasNonMergeCommitsAfter", b) = {}
      /\ ~locals[b].relooked
      /\ Cardinality(LateLookups(b)) = One(locals[b].stale)
      /\ cacheUpdates[b] \in {0, locals[b].prNumber}

\* C23 witness: a finished run with a branch whose merged review has a head
\* the local repository lacks; the existence query ran and said no.
C23_Witness ==
  /\ Done /\ GateOpen
  /\ \E b \in Features :
       /\ ResolvedMerged(b)
       /\ locals[b].prStatus.headRefOid = RemoteOnlySha
       /\ locals[b].localSha = BranchTip[b]
       /\ locals[b].headExists = "no"
       /\ CallsFor("commitExists", b) # {}
       /\ result[b].status = "Merged"

\* The MERGED arm has run on a branch whose review head is in the repository.
ClassifiedOnHead == gPc = "classified" /\ probe.prHead \in 1..Len(parents)

\* The commits of the branch that the review head does not reach.
Beyond == ReachIn(parents, probe.tip) \ ReachIn(parents, probe.prHead)

\* C24: in every repository that holds the head of the merged review, a
\* branch whose tip is a strict ancestor of that head is Merged, with the
\* resolved review.
C24_BehindHeadIsMerged ==
  (/\ ClassifiedOnHead
   /\ probe.tip # probe.prHead
   /\ probe.tip \in ReachIn(parents, probe.prHead)) =>
    /\ verdict.status = "Merged"
    /\ ~verdict.newer
    /\ "findPRForBranch" \notin verdict.asked

\* C24 witness: the review head is a merge commit two commits ahead of the
\* branch tip; both divergence queries ran and the branch is Merged.
C24_Witness ==
  /\ ClassifiedOnHead
  /\ probe.tip # probe.prHead
  /\ probe.tip \in ReachIn(parents, probe.prHead)
  /\ Cardinality(parents[probe.prHead]) = 2
  /\ probe.tip \notin parents[probe.prHead]
  /\ verdict = [status |-> "Merged", newer |-> FALSE,
                asked |-> {"commitExists", "hasNonMergeCommitsAfter"}]


\* C25: in every repository that holds the head of the merged review, a
\* branch all of whose commits beyond that head are merge commits is Merged
\* with the resolved review, and it is not looked up again.
C25_OnlyMergesBeyondIsMerged ==
  (/\ ClassifiedOnHead
   /\ \A c \in Beyond : Cardinality(parents[c]) > 1) =>
    /\ verdict.status = "Merged"
    /\ ~verdict.newer
    /\ "findPRForBranch" \notin verdict.asked

\* C25 witness: the branch tip is a merge commit made on top of the review
\* head, the only commit beyond it; the non-merge-commit query ran and the
\* branch is Merged.
C25_Witness ==
  /\ ClassifiedOnHead
  /\ Beyond = {probe.tip}
  /\ Cardinality(parents[probe.tip]) = 2
  /\ probe.prHead \in parents[probe.tip]
  /\ verdict = [status |-> "Merged", newer |-> FALSE,
                asked |-> {"commitExists", "hasNonMergeCommitsAfter"}]

SaveCalls == CallsOf("saveCache")

\* The write after the step-3 lookups: made when an id was discovered, with
\* every discovered id, after every step-3 lookup and before the batch fetch.
FirstWriteBatched ==
  /\ Len(writes) >= One(newPRNumbers # EmptyNumbers)
  /\ newPRNumbers # EmptyNumbers =>
       /\ writes[1].mappings = newPRNumbers
       /\ \A b \in Features :
            loadedNumbers[b] = 0 =>
              newPRNumbers[b] = cachedNumbers[b]
       /\ \E i \in SaveCalls :
            /\ \A k \in SaveCalls : i <= k
            /\ \A j \in BatchCalls : i < j
            /\ \A b \in Features :
                 loadedNumbers[b] = 0 =>
                   \E k \in CallsFor("findPRForBranch", b) : k < i

\* C26: an invocation writes the cache at most twice: once after the step-3
\* lookups and before the batch fetch, with every id discovered, when there
\* is one; once after the last branch is classified, with every queued
\* correction, when there is one; and not otherwise, however many branches
\* were discovered or corrected.
C26_AtMostTwoBatchedWrites ==
  /\ Cardinality(SaveCalls) = Len(writes)
  /\ pc \in {"idle", "gate", "nogithub", "load", "lookup"} => writes = <<>>
  /\ (Done /\ ~GateOpen) => writes = <<>>
  /\ pc \in {"batch", "classify"} =>
       /\ Len(writes) = One(newPRNumbers # EmptyNumbers)
       /\ FirstWriteBatched
  /\ (Done /\ GateOpen) =>
       /\ Len(writes) = One(newPRNumbers # EmptyNumbers) + One(cacheUpdates # EmptyNumbers)
       /\ FirstWriteBatched
       /\ cacheUpdates # EmptyNumbers =>
            /\ writes[Len(writes)].mappings = cacheUpdates
            /\ Len(log) \in SaveCalls
            /\ \A b \in Features :
                 (locals[b].stale /\ locals[b].prNumber # 0) =>
                   cacheUpdates[b] = locals[b].prNumber

\* C26 witness: a finished run over two feature branches that wrote twice:
\* first the id discovered for one branch, then the correction of the other.
C26_Witness ==
  /\ Done /\ GateOpen
  /\ Len(writes) = 2
  /\ \E b, c \in Features :
       /\ b # c
       /\ loadedNumbers[b] = 0 /\ writes[1].mappings[b] # 0
       /\ locals[c].stale /\ writes[2].mappings[c] # 0
       /\ writes[1].mappings[c] = 0 /\ writes[2].mappings[b] = 0


\* The statuses the uncommitted-changes check of list() leaves alone.
KeptStatuses == {"Open", "Closed", "Changes since Merge", "Main"}

\* C27: in a listing, a worktree with uncommitted changes whose computed
\* status is Open, Closed, Changes since Merge or Main keeps that status, and
\* every listed branch, overridden or not, keeps the review number the engine
\* computed.
C27_OverrideLeavesOthersAlone ==
  Listed =>
    \A b \in Branches :
      /\ (b \in dirty /\ result[b].status \in KeptStatuses) =>
           items[b].status = result[b].status
      /\ items[b].prNumber = result[b].prNumber

\* C27 witness: a listing in which the default branch's worktree and the
\* worktree of a branch with an open review both have uncommitted changes and
\* keep their statuses, while another dirty branch was overridden and kept its
\* review number.
C27_Witness ==
  /\ Listed
  /\ DefaultBranchName \in dirty
  /\ items[DefaultBranchName].status = "Main"
  /\ \E b \in Features \cap dirty :
       /\ result[b].status = "Open"
       /\ items[b] = result[b]
  /\ \E b \in Features \cap dirty :
       /\ result[b].status = "Merged"
       /\ items[b].status = "Uncommitted Changes"
       /\ items[b].prNumber = result[b].prNumber
       /\ items[b].prNumber # 0


\* Every cache write the invocation attempted succeeded.
AllWritesOk == \A i \in 1..Len(writes) : writes[i].ok

ReviewStatuses == {"Open", "Closed", "Merged", "Changes since Merge"}

\* The review state each of them is produced from.
StateBehind(status) ==
  CASE status = "Open" -> "OPEN"
    [] status = "Closed" -> "CLOSED"
    [] OTHER -> "MERGED"

\* The re-run lookup of branch b found a merged review other than the resolved
\* one.
FoundNewer(b) ==
  /\ locals[b].relooked
  /\ locals[b].freshPR # NullPR
  /\ locals[b].freshPR.number # locals[b].prNumber
  /\ locals[b].freshPR.state = "MERGED"

\* The review the classification of branch b ended on: the newer merged one
\* when the re-run lookup found it, else the resolved one.
Producer(b) == IF FoundNewer(b) THEN locals[b].freshPR ELSE locals[b].prStatus

\* C29: in the engine's result a branch has a review number exactly when its
\* status is Open, Closed, Merged or Changes since Merge, and none exactly
\* when its status is Main or a no-review status; a number in the result is
\* the number of the review the classification ended on, and that review is
\* in the state the status is produced from.
C29_IdIffReviewStatus ==
  \A b \in Branches :
    result[b] # NoResult =>
      /\ result[b].prNumber # 0 <=> result[b].status \in ReviewStatuses
      /\ result[b].prNumber = 0 <=> result[b].status \in {"Main"} \cup NoReviewStatuses
      /\ (pc \in {"classify", "done"} /\ result[b].prNumber # 0) =>
           /\ Producer(b).number = result[b].prNumber
           /\ Producer(b).state = StateBehind(result[b].status)

\* C29 witness: an ended invocation that reports the default branch as Main
\* and a branch with no review without a number, although the cache held one
\* for it, and another branch as Merged with the number of a newer merged
\* review in place of the cached one.
C29_Witness ==
  /\ Done
  /\ result[DefaultBranchName] = [status |-> "Main", prNumber |-> 0]
  /\ \E b \in Features :
       /\ loadedNumbers[b] # 0
       /\ result[b].status \in NoReviewStatuses
       /\ result[b].prNumber = 0
  /\ \E b \in Features :
       /\ FoundNewer(b)
       /\ result[b] = [status |-> "Merged", prNumber |-> locals[b].freshPR.number]


\* The entries a cache file holds: none when it does not parse.
Entries(file) == IF file.ok THEN file.prNumbers ELSE EmptyCache

\* One step of the engine deletes no entry, changes only the entry of a
\* feature branch to the number this run discovered for it when it had none or
\* queued as its correction, and leaves the entry of every branch outside the
\* worktree list as it was.
EntriesKept ==
  \A b \in BranchNames :
    LET old == Entries(cacheFile)[b]
        new == Entries(cacheFile')[b]
    IN /\ old # 0 => new # 0
       /\ new # old =>
            /\ b \in Features
            /\ \/ old = 0 /\ newPRNumbers[b] = new
               \/ cacheUpdates[b] = new
       /\ b \notin Branches => new = old

\* The stale lookup of branch b found no review.
StaleUnresolved(b) ==
  /\ locals[b].stale
  /\ locals[b].prNumber = 0

\* An ended run reports every branch whose stale entry's fresh lookup found no
\* review as having no review, and the stale number is still in the cache.
StaleIdStays ==
  Done =>
    \A b \in Features :
      StaleUnresolved(b) =>
        /\ result[b].status \in NoReviewStatuses
        /\ result[b].prNumber = 0
        /\ loadedNumbers[b] # 0
        /\ cacheUpdates[b] = 0
        /\ Entries(cacheFile)[b] = loadedNumbers[b]

UnlistedEntryKept ==
  /\ Done
  /\ writes # <<>>
  /\ AllWritesOk
  /\ \E b \in Features :
       /\ cacheUpdates[b] # 0
       /\ Entries(cacheFile)[b] = cacheUpdates[b]
       /\ Entries(cacheFile)[b] # loadedNumbers[b]
  /\ \E b \in FeatureNames \ Branches : Entries(cacheFile)[b] # 0

====
